---- MODULE Spec2Model ----
(***************************************************************************)
(* A model of the dual-backend GPU abstraction of wgpu-webgl-wasm: the two *)
(* backends (WebGPUBackend, WebGLBackend), the backend selector and frame  *)
(* driver of the two demos (triangle.ts, triangle_buffer.ts), the logger.  *)
(*                                                                         *)
(* Six specifications share the state:                                     *)
(*   Spec     the demo's main(): selector, setup sequence, render()        *)
(*   SpecLive Spec, with the top-level rejection handler always run        *)
(*   SpecLoop Spec, with an event loop that runs other tasks beside main() *)
(*   SpecAPI  a client that calls the GPUBackend interface of one backend  *)
(*            in any order (bounded)                                       *)
(*   SpecBuf  a client that creates buffers with any usage mask            *)
(*   SpecPipe a client that creates a shader module and pipelines          *)
(***************************************************************************)
EXTENDS Integers, Sequences, FiniteSets, TLC

\* ------------------------------------------------------------------ bounds

\* interface calls (after init) the client of SpecAPI makes
MaxCalls == 4

\* frames the client of SpecAPI begins
MaxFrames == 2

\* other tasks the event loop of SpecLoop runs beside main()
MaxOthers == 2

\* ------------------------------------------------------------------ errors

\* no exception
NoErr == [kind |-> "none", message |-> "", value |-> ""]

\* new Error(m)
Err(m) == [kind |-> "Error", message |-> m, value |-> ""]

\* a thrown value that is not an Error object (wasm-bindgen throws JsValue)
Thrown(v) == [kind |-> "value", message |-> "", value |-> v]

\* what the platform (browser GPU runtime, module loader, wasm module) may throw
EnvErrors == {Err("platform error"), Thrown("platform panic")}

\* the outcome of one platform call: no exception, or one of EnvErrors
Outcomes == {NoErr} \cup EnvErrors

\* e instanceof Error ? e.message : String(e)
Message(e) == IF e.kind = "Error" THEN e.message ELSE e.value

\* ------------------------------------------------------------------ logger

levelPriority == [debug |-> 0, info |-> 1, warn |-> 2, error |-> 3]

\* module-level minLogLevel; configureLogger({container}) leaves it alone
minLogLevel == "debug"

\* log(level, ...args): dropped below minLogLevel, else appended to the sink
log(sink, level, text) ==
    IF levelPriority[level] < levelPriority[minLogLevel]
    THEN sink
    ELSE Append(sink, [level |-> level, text |-> text])

\* ------------------------------------------------------------------ values

\* GPUContext | null
NullCtx == [tag |-> "null", device |-> 0, queue |-> 0, format |-> "none"]

\* formats navigator.gpu.getPreferredCanvasFormat() may report
Formats == {"bgra8unorm", "rgba8unorm"}

\* FrameContext: { commandEncoder, renderPass }
NullFrame == [kind |-> "none", commandEncoder |-> 0, renderPass |-> 0]

\* no resource handle
NullHandle == [kind |-> "none", id |-> 0]

\* clearColor of both demos, in hundredths: { r: 0.1, g: 0.1, b: 0.15, a: 1.0 }
clearColor == [r |-> 10, g |-> 10, b |-> 15, a |-> 100]

\* the platform objects before anything is created
EmptyDev == [modules |-> <<>>, pipelines |-> <<>>, buffers |-> <<>>, frames |-> <<>>]

\* one call received by the platform (browser GPU API, loader, wasm module)
P(op, obj, args) == [op |-> op, obj |-> obj, args |-> args]

\* the result of one backend operation: new platform objects, the platform
\* calls it made in order, the value returned, the exception thrown
R(d, p, ret, err) == [dev |-> d, plat |-> p, ret |-> ret, err |-> err]

\* ------------------------------------------------------------------ data

\* mutant: VERTEX is given two bits, one of them INDEX's
BufferUsage_VertexTwoBits ==
    [MAP_READ |-> 1, MAP_WRITE |-> 2, COPY_SRC |-> 4, COPY_DST |-> 8,
     INDEX |-> 16, VERTEX |-> 48, UNIFORM |-> 64, STORAGE |-> 128,
     INDIRECT |-> 256, QUERY_RESOLVE |-> 512]

\* usage flags (BufferUsage of the bridge backend, the native encoding)
BufferUsage ==
    [MAP_READ |-> 1, MAP_WRITE |-> 2, COPY_SRC |-> 4, COPY_DST |-> 8,
     INDEX |-> 16, VERTEX |-> 32, UNIFORM |-> 64, STORAGE |-> 128,
     INDIRECT |-> 256, QUERY_RESOLVE |-> 512]

\* the browser's GPUBufferUsage.COPY_DST
GPUBufferUsage_COPY_DST == 8

\* a | b on non-negative integers
RECURSIVE BitOr(_, _)
BitOr(a, b) ==
    IF a = 0 THEN b
    ELSE IF b = 0 THEN a
    ELSE (IF a % 2 = 1 \/ b % 2 = 1 THEN 1 ELSE 0) + 2 * BitOr(a \div 2, b \div 2)

\* a & b on non-negative integers
RECURSIVE BitAnd(_, _)
BitAnd(a, b) ==
    IF a = 0 \/ b = 0 THEN 0
    ELSE (IF a % 2 = 1 /\ b % 2 = 1 THEN 1 ELSE 0) + 2 * BitAnd(a \div 2, b \div 2)

\* the names of the usage flags
FlagNames == DOMAIN BufferUsage

\* BufferUsage.F1 | BufferUsage.F2 | ... for the flags named in S
RECURSIVE OrAll(_)
OrAll(S) ==
    IF S = {} THEN 0
    ELSE LET f == CHOOSE g \in S : TRUE
         IN  BitOr(BufferUsage[f], OrAll(S \ {f}))

\* (usage & BufferUsage.F) !== 0, for every flag F: the flags a mask reports
FlagsOf(usage) == {f \in FlagNames : BitAnd(usage, BufferUsage[f]) # 0}

\* a byte source: an ArrayBuffer (isView = FALSE, the whole of buffer) or an
\* ArrayBufferView of buffer at [byteOffset, byteOffset + byteLength)
ArrayBufferOf(bytes) ==
    [isView |-> FALSE, buffer |-> bytes, byteOffset |-> 0, byteLength |-> Len(bytes)]

ViewOf(bytes, off, len) ==
    [isView |-> TRUE, buffer |-> bytes, byteOffset |-> off, byteLength |-> len]

\* mutant: a view is uploaded as its whole underlying buffer
Uint8ArrayOf_WholeBuffer(data) == data.buffer

\* new Uint8Array(data) | new Uint8Array(data.buffer, data.byteOffset, data.byteLength)
Uint8ArrayOf(data) ==
    IF ~data.isView
    THEN data.buffer
    ELSE SubSeq(data.buffer, data.byteOffset + 1, data.byteOffset + data.byteLength)

\* TRIANGLE_VERTICES: Float32Array [0, 0.5, -0.5, -0.5, 0.5, -0.5], little endian
TRIANGLE_VERTICES ==
    ViewOf(<<0, 0, 0, 0,    0, 0, 0, 63,
             0, 0, 0, 191,  0, 0, 0, 191,
             0, 0, 0, 63,   0, 0, 0, 191>>, 0, 24)

\* no vertex layout
NoLayout == [arrayStride |-> 0, attributes |-> <<>>]

\* vertexBufferLayout of triangle_buffer.ts
vertexBufferLayout ==
    [arrayStride |-> 2 * 4,
     attributes |-> <<[shaderLocation |-> 0, offset |-> 0, format |-> "float32x2"]>>]

\* ------------------------------------------------------------------ WebGPUBackend

\* what a segment of an async init yields: the platform calls made, then
\* either an exception, or a suspension (await), or the Context returned
I(p, err, c) == [plat |-> p, err |-> err, ctx |-> c]

\* init up to the first await: the capability check and requestAdapter()
WebGPU_init_1(gpu) ==
    IF ~gpu
    THEN I(<<>>, Err("WebGPU not supported"), NullCtx)
    ELSE I(<<P("navigator.gpu.requestAdapter", 0, <<>>)>>, NoErr, NullCtx)

\* mutant: the canvas context is requested before the device
WebGPU_init_2_ClaimsCanvasFirst(ax, adapter) ==
    IF ax # NoErr THEN I(<<>>, ax, NullCtx)
    ELSE IF ~adapter THEN I(<<>>, Err("No WebGPU adapter found"), NullCtx)
    ELSE I(<<P("canvas.getContext", 0, <<"webgpu">>),
             P("adapter.requestDevice", 0, <<>>)>>, NoErr, NullCtx)

\* init after requestAdapter() settled (ax: its rejection; adapter: non-null)
WebGPU_init_2(ax, adapter) ==
    IF ax # NoErr THEN I(<<>>, ax, NullCtx)
    ELSE IF ~adapter THEN I(<<>>, Err("No WebGPU adapter found"), NullCtx)
    ELSE I(<<P("adapter.requestDevice", 0, <<>>)>>, NoErr, NullCtx)

\* mutant: the context is tested only after the surface was configured
WebGPU_init_3_ChecksContextLate(dx, hasContext, format, cx) ==
    LET p2 == <<P("canvas.getContext", 0, <<"webgpu">>),
                P("navigator.gpu.getPreferredCanvasFormat", 0, <<>>),
                P("context.configure", 0, <<format, "premultiplied">>)>>
    IN  IF dx # NoErr THEN I(<<>>, dx, NullCtx)
        ELSE IF ~hasContext THEN I(p2, Err("Failed to get WebGPU context"), NullCtx)
        ELSE IF cx # NoErr THEN I(p2, cx, NullCtx)
        ELSE I(p2, NoErr, [tag |-> "webgpu", device |-> 1, queue |-> 1, format |-> format])

\* init after requestDevice() settled (dx: its rejection), to the return:
\* getContext('webgpu'), getPreferredCanvasFormat(), configure()
WebGPU_init_3(dx, hasContext, format, cx) ==
    LET p1 == <<P("canvas.getContext", 0, <<"webgpu">>)>>
        p2 == p1 \o <<P("navigator.gpu.getPreferredCanvasFormat", 0, <<>>),
                      P("context.configure", 0, <<format, "premultiplied">>)>>
    IN  IF dx # NoErr THEN I(<<>>, dx, NullCtx)
        ELSE IF ~hasContext THEN I(p1, Err("Failed to get WebGPU context"), NullCtx)
        ELSE IF cx # NoErr THEN I(p2, cx, NullCtx)
        ELSE I(p2, NoErr, [tag |-> "webgpu", device |-> 1, queue |-> 1, format |-> format])

WebGPU_createShaderModule(d, c, code, vertexEntry, fragmentEntry, x) ==
    LET p == <<P("device.createShaderModule", c.device, <<code>>)>>
        m == [kind |-> "gpu", code |-> code, vertexEntry |-> "none", fragmentEntry |-> "none"]
    IN  IF x # NoErr THEN R(d, p, NullHandle, x)
        ELSE R([d EXCEPT !.modules = Append(@, m)], p,
               [kind |-> "gpu", id |-> Len(d.modules) + 1], NoErr)

\* mutant: the colour target's format is written out instead of read from the Context
WebGPU_pipelineDescriptor_FixedFormat(c, shaderModule, layout) ==
    [kind |-> "gpu", module |-> shaderModule,
     vertexEntry |-> "vs_main", fragmentEntry |-> "fs_main",
     format |-> "bgra8unorm", topology |-> "triangle-list", layout |-> layout]

\* the descriptor both native pipeline constructors pass to the device
WebGPU_pipelineDescriptor(c, shaderModule, layout) ==
    [kind |-> "gpu", module |-> shaderModule,
     vertexEntry |-> "vs_main", fragmentEntry |-> "fs_main",
     format |-> c.format, topology |-> "triangle-list", layout |-> layout]

WebGPU_createRenderPipeline(d, c, shaderModule, topology, x) ==
    LET desc == WebGPU_pipelineDescriptor(c, shaderModule, NoLayout)
        p == <<P("device.createRenderPipeline", c.device, <<desc>>)>>
    IN  IF x # NoErr THEN R(d, p, NullHandle, x)
        ELSE R([d EXCEPT !.pipelines = Append(@, desc)], p,
               [kind |-> "gpu", id |-> Len(d.pipelines) + 1], NoErr)

WebGPU_createRenderPipelineWithLayout(d, c, shaderModule, topology, layout, x) ==
    LET copy == [arrayStride |-> layout.arrayStride,
                 attributes |-> [i \in 1..Len(layout.attributes) |->
                     [shaderLocation |-> layout.attributes[i].shaderLocation,
                      offset |-> layout.attributes[i].offset,
                      format |-> layout.attributes[i].format]]]
        desc == WebGPU_pipelineDescriptor(c, shaderModule, copy)
        p == <<P("device.createRenderPipeline", c.device, <<desc>>)>>
    IN  IF x # NoErr THEN R(d, p, NullHandle, x)
        ELSE R([d EXCEPT !.pipelines = Append(@, desc)], p,
               [kind |-> "gpu", id |-> Len(d.pipelines) + 1], NoErr)

WebGPU_createBuffer(d, c, size, usage, x) ==
    LET p == <<P("device.createBuffer", c.device, <<size, usage, FALSE>>)>>
        b == [kind |-> "gpu", size |-> size, usage |-> usage,
              bytes |-> [i \in 1..size |-> 0]]
    IN  IF x # NoErr THEN R(d, p, NullHandle, x)
        ELSE R([d EXCEPT !.buffers = Append(@, b)], p,
               [kind |-> "gpu", id |-> Len(d.buffers) + 1], NoErr)

\* mutant: the native createBufferWithData passes the usage as given
WebGPU_createBufferWithData_NoCopyDst(d, c, data, usage, x) ==
    LET p == <<P("device.createBuffer", c.device, <<data.byteLength, usage, TRUE>>)>>
        b == [kind |-> "gpu", size |-> data.byteLength, usage |-> usage,
              bytes |-> Uint8ArrayOf(data)]
    IN  IF x # NoErr THEN R(d, p, NullHandle, x)
        ELSE R([d EXCEPT !.buffers = Append(@, b)],
               p \o <<P("buffer.getMappedRange", Len(d.buffers) + 1, <<>>),
                      P("buffer.unmap", Len(d.buffers) + 1, <<>>)>>,
               [kind |-> "gpu", id |-> Len(d.buffers) + 1], NoErr)

WebGPU_createBufferWithData(d, c, data, usage, x) ==
    LET u == BitOr(usage, GPUBufferUsage_COPY_DST)
        p == <<P("device.createBuffer", c.device, <<data.byteLength, u, TRUE>>)>>
        b == [kind |-> "gpu", size |-> data.byteLength, usage |-> u,
              bytes |-> Uint8ArrayOf(data)]
    IN  IF x # NoErr THEN R(d, p, NullHandle, x)
        ELSE R([d EXCEPT !.buffers = Append(@, b)],
               p \o <<P("buffer.getMappedRange", Len(d.buffers) + 1, <<>>),
                      P("buffer.unmap", Len(d.buffers) + 1, <<>>)>>,
               [kind |-> "gpu", id |-> Len(d.buffers) + 1], NoErr)

\* beginFrame: x is what createCommandEncoder / getCurrentTexture throws
WebGPU_beginFrame(d, c, color, x) ==
    LET n == Len(d.frames) + 1
        p1 == <<P("device.createCommandEncoder", c.device, <<>>),
                P("context.getCurrentTexture", 0, <<>>)>>
        p2 == p1 \o <<P("texture.createView", 0, <<>>),
                      P("encoder.beginRenderPass", n, <<color, "clear", "store">>)>>
        f == [kind |-> "gpu", clear |-> color, loadOp |-> "clear",
              ended |-> 0, finished |-> 0, submitted |-> 0]
    IN  IF x # NoErr THEN R(d, p1, NullFrame, x)
        ELSE R([d EXCEPT !.frames = Append(@, f)], p2,
               [kind |-> "gpu", commandEncoder |-> n, renderPass |-> n], NoErr)

WebGPU_setPipeline(d, frame, pipeline) ==
    R(d, <<P("pass.setPipeline", frame.renderPass, <<pipeline>>)>>, NullHandle, NoErr)

WebGPU_setVertexBuffer(d, frame, slot, buffer, offset) ==
    R(d, <<P("pass.setVertexBuffer", frame.renderPass, <<slot, buffer, offset>>)>>,
      NullHandle, NoErr)

WebGPU_draw(d, frame, vertexCount, instanceCount, firstVertex, firstInstance) ==
    R(d, <<P("pass.draw", frame.renderPass,
             <<vertexCount, instanceCount, firstVertex, firstInstance>>)>>,
      NullHandle, NoErr)

\* mutant: the native endFrame submits before it ends the pass
WebGPU_endFrame_SubmitFirst(d, c, frame) ==
    R(d, <<P("encoder.finish", frame.commandEncoder, <<>>),
           P("queue.submit", c.queue, <<frame.commandEncoder>>),
           P("pass.end", frame.renderPass, <<>>)>>,
      NullHandle, NoErr)

\* renderPass.end(); queue.submit([commandEncoder.finish()])
WebGPU_endFrame(d, c, frame) ==
    LET n == frame.renderPass
        d1 == IF n \in 1..Len(d.frames)
              THEN [d EXCEPT !.frames[n].ended = @ + 1,
                             !.frames[n].finished = @ + 1,
                             !.frames[n].submitted = @ + 1]
              ELSE d
    IN  R(d1, <<P("pass.end", frame.renderPass, <<>>),
                P("encoder.finish", frame.commandEncoder, <<>>),
                P("queue.submit", c.queue, <<frame.commandEncoder>>)>>,
          NullHandle, NoErr)

\* queue.writeBuffer(buffer, offset, data[, dataOffset, size]): the queue
\* copies the source's bytes into the buffer at offset
WebGPU_writeBuffer(d, c, buffer, data, offset) ==
    LET src == Uint8ArrayOf(data)
        n == buffer.id
        p == <<P("queue.writeBuffer", c.queue,
                 IF ~data.isView THEN <<buffer, offset, data.buffer>>
                 ELSE <<buffer, offset, data.buffer, data.byteOffset, data.byteLength>>)>>
        fits == n \in 1..Len(d.buffers) /\ offset + Len(src) <= d.buffers[n].size
    IN  IF ~fits THEN R(d, p, NullHandle, Err("OperationError"))
        ELSE R([d EXCEPT !.buffers[n].bytes =
                   [i \in 1..Len(@) |->
                       IF i > offset /\ i <= offset + Len(src) THEN src[i - offset] ELSE @[i]]],
               p, NullHandle, NoErr)

\* ------------------------------------------------------------------ WebGLBackend

\* mutant: the default branch returns Float32
mapVertexFormat_DefaultFloat32(format) ==
    CASE format = "float32" -> "Float32"
      [] format = "float32x2" -> "Float32x2"
      [] format = "float32x3" -> "Float32x3"
      [] format = "float32x4" -> "Float32x4"
      [] format = "uint32" -> "Uint32"
      [] format = "sint32" -> "Sint32"
      [] OTHER -> "Float32"

\* mapVertexFormat: the WVertexFormat member of a GPUVertexFormat string
mapVertexFormat(format) ==
    CASE format = "float32" -> "Float32"
      [] format = "float32x2" -> "Float32x2"
      [] format = "float32x3" -> "Float32x3"
      [] format = "float32x4" -> "Float32x4"
      [] format = "uint32" -> "Uint32"
      [] format = "sint32" -> "Sint32"
      [] OTHER -> "Float32x4"

\* the console.warn of mapVertexFormat's default branch
mapVertexFormatWarns(format) ==
    IF format \in {"float32", "float32x2", "float32x3", "float32x4", "uint32", "sint32"}
    THEN <<>>
    ELSE <<P("console.warn", 0, <<"Unsupported vertex format: ", format, ", defaulting to float32x4">>)>>

\* init up to the first await: the dynamic import of the wasm module
WebGL_init_1 ==
    I(<<P("import", 0, <<"../../pkg/wgpu_webgl_wasm.js">>)>>, NoErr, NullCtx)

\* init after the import settled (ix: its rejection): wasm.default()
WebGL_init_2(ix) ==
    IF ix # NoErr THEN I(<<>>, ix, NullCtx)
    ELSE I(<<P("wasm.default", 0, <<>>)>>, NoErr, NullCtx)

\* init after wasm.default() settled (wx: its rejection), to the return:
\* createDevice(canvas) (dx: what it throws), device.getQueue()
WebGL_init_3(wx, dx) ==
    LET p1 == <<P("wasm.createDevice", 0, <<"canvas">>)>>
    IN  IF wx # NoErr THEN I(<<>>, wx, NullCtx)
        ELSE IF dx # NoErr THEN I(p1, dx, NullCtx)
        ELSE I(p1 \o <<P("device.getQueue", 1, <<>>)>>, NoErr,
               [tag |-> "webgl", device |-> 1, queue |-> 1, format |-> "none"])

WebGL_createShaderModule(d, c, code, vertexEntry, fragmentEntry, x) ==
    LET p == <<P("wasm.createShaderModule", c.device, <<code, vertexEntry, fragmentEntry>>)>>
        m == [kind |-> "wasm", code |-> code, vertexEntry |-> vertexEntry,
              fragmentEntry |-> fragmentEntry]
    IN  IF x # NoErr THEN R(d, p, NullHandle, x)
        ELSE R([d EXCEPT !.modules = Append(@, m)], p,
               [kind |-> "wasm", id |-> Len(d.modules) + 1], NoErr)

\* the arguments both bridge pipeline constructors pass to the wasm module
WebGL_pipelineDescriptor(c, shaderModule, layout) ==
    [kind |-> "wasm", module |-> shaderModule,
     vertexEntry |-> "none", fragmentEntry |-> "none",
     format |-> "none", topology |-> "TriangleList", layout |-> layout]

WebGL_createRenderPipeline(d, c, shaderModule, topology, x) ==
    LET desc == WebGL_pipelineDescriptor(c, shaderModule, NoLayout)
        p == <<P("wasm.createRenderPipeline", c.device, <<desc>>)>>
    IN  IF x # NoErr THEN R(d, p, NullHandle, x)
        ELSE R([d EXCEPT !.pipelines = Append(@, desc)], p,
               [kind |-> "wasm", id |-> Len(d.pipelines) + 1], NoErr)

RECURSIVE WebGL_layoutWarns(_, _)
\* the warnings of the attribute loop, from attribute i on
WebGL_layoutWarns(attributes, i) ==
    IF i > Len(attributes) THEN <<>>
    ELSE mapVertexFormatWarns(attributes[i].format) \o WebGL_layoutWarns(attributes, i + 1)

WebGL_createRenderPipelineWithLayout(d, c, shaderModule, topology, layout, x) ==
    LET wl == [arrayStride |-> layout.arrayStride,
               attributes |-> [i \in 1..Len(layout.attributes) |->
                   [shaderLocation |-> layout.attributes[i].shaderLocation,
                    offset |-> layout.attributes[i].offset,
                    format |-> mapVertexFormat(layout.attributes[i].format)]]]
        desc == WebGL_pipelineDescriptor(c, shaderModule, wl)
        p == WebGL_layoutWarns(layout.attributes, 1)
             \o <<P("wasm.createRenderPipelineWithLayout", c.device, <<desc>>)>>
    IN  IF x # NoErr THEN R(d, p, NullHandle, x)
        ELSE R([d EXCEPT !.pipelines = Append(@, desc)], p,
               [kind |-> "wasm", id |-> Len(d.pipelines) + 1], NoErr)

WebGL_createBuffer(d, c, size, usage, x) ==
    LET p == <<P("wasm.createBuffer", c.device, <<size, usage>>)>>
        b == [kind |-> "wasm", size |-> size, usage |-> usage,
              bytes |-> [i \in 1..size |-> 0]]
    IN  IF x # NoErr THEN R(d, p, NullHandle, x)
        ELSE R([d EXCEPT !.buffers = Append(@, b)], p,
               [kind |-> "wasm", id |-> Len(d.buffers) + 1], NoErr)

\* the wasm module's createBufferWithData(device, bytes, usage): a buffer of
\* the size of bytes, holding bytes, usable as a copy destination besides
\* the usage asked for (x: what it throws)
wasm_createBufferWithData(d, device, bytes, usage, x) ==
    LET p == <<P("wasm.createBufferWithData", device, <<bytes, usage>>)>>
        b == [kind |-> "wasm", size |-> Len(bytes),
              usage |-> BitOr(usage, BufferUsage.COPY_DST), bytes |-> bytes]
    IN  IF x # NoErr THEN R(d, p, NullHandle, x)
        ELSE R([d EXCEPT !.buffers = Append(@, b)], p,
               [kind |-> "wasm", id |-> Len(d.buffers) + 1], NoErr)

WebGL_createBufferWithData(d, c, data, usage, x) ==
    LET bytes == Uint8ArrayOf(data)
    IN  wasm_createBufferWithData(d, c.device, bytes, usage, x)

\* mutant: the bridge writeBuffer drops the data without a warning
WebGL_writeBuffer_Silent(d, c, buffer, data, offset) ==
    R(d, <<>>, NullHandle, NoErr)

\* writeBuffer: a warning, nothing else
WebGL_writeBuffer(d, c, buffer, data, offset) ==
    R(d, <<P("console.warn", 0,
             <<"WebGL: writeBuffer not fully implemented yet, use createBufferWithData instead">>)>>,
      NullHandle, NoErr)

\* beginFrame: x is what wasm.createCommandEncoder throws
WebGL_beginFrame(d, c, color, x) ==
    LET n == Len(d.frames) + 1
        p1 == <<P("wasm.createCommandEncoder", c.device, <<>>)>>
        p2 == p1 \o <<P("encoder.beginRenderPass", n, <<color, "Clear">>)>>
        f == [kind |-> "wasm", clear |-> color, loadOp |-> "Clear",
              ended |-> 0, finished |-> 0, submitted |-> 0]
    IN  IF x # NoErr THEN R(d, p1, NullFrame, x)
        ELSE R([d EXCEPT !.frames = Append(@, f)], p2,
               [kind |-> "wasm", commandEncoder |-> n, renderPass |-> n], NoErr)

WebGL_setPipeline(d, frame, pipeline) ==
    R(d, <<P("pass.setPipeline", frame.renderPass, <<pipeline>>)>>, NullHandle, NoErr)

WebGL_setVertexBuffer(d, frame, slot, buffer, offset) ==
    R(d, <<P("pass.setVertexBuffer", frame.renderPass, <<slot, buffer, offset>>)>>,
      NullHandle, NoErr)

\* mutant: the bridge draw passes its counts in the wrong order
WebGL_draw_SwapsCounts(d, frame, vertexCount, instanceCount, firstVertex, firstInstance) ==
    R(d, <<P("pass.draw", frame.renderPass,
             <<instanceCount, vertexCount, firstVertex, firstInstance>>)>>,
      NullHandle, NoErr)

WebGL_draw(d, frame, vertexCount, instanceCount, firstVertex, firstInstance) ==
    R(d, <<P("pass.draw", frame.renderPass,
             <<vertexCount, instanceCount, firstVertex, firstInstance>>)>>,
      NullHandle, NoErr)

\* renderPass.end(); commandEncoder.finish(); queue.submit()
WebGL_endFrame(d, c, frame) ==
    LET n == frame.renderPass
        d1 == IF n \in 1..Len(d.frames)
              THEN [d EXCEPT !.frames[n].ended = @ + 1,
                             !.frames[n].finished = @ + 1,
                             !.frames[n].submitted = @ + 1]
              ELSE d
    IN  R(d1, <<P("pass.end", frame.renderPass, <<>>),
                P("encoder.finish", frame.commandEncoder, <<>>),
                P("queue.submit", c.queue, <<>>)>>,
          NullHandle, NoErr)

\* ------------------------------------------------------------------ GPUBackend

\* backend.op(...): the call goes to the object bound to `backend`
B_createShaderModule(b, d, c, code, vertexEntry, fragmentEntry, x) ==
    IF b = "WebGPU" THEN WebGPU_createShaderModule(d, c, code, vertexEntry, fragmentEntry, x)
    ELSE WebGL_createShaderModule(d, c, code, vertexEntry, fragmentEntry, x)

B_createRenderPipeline(b, d, c, shaderModule, topology, x) ==
    IF b = "WebGPU" THEN WebGPU_createRenderPipeline(d, c, shaderModule, topology, x)
    ELSE WebGL_createRenderPipeline(d, c, shaderModule, topology, x)

B_createRenderPipelineWithLayout(b, d, c, shaderModule, topology, layout, x) ==
    IF b = "WebGPU"
    THEN WebGPU_createRenderPipelineWithLayout(d, c, shaderModule, topology, layout, x)
    ELSE WebGL_createRenderPipelineWithLayout(d, c, shaderModule, topology, layout, x)

B_createBuffer(b, d, c, size, usage, x) ==
    IF b = "WebGPU" THEN WebGPU_createBuffer(d, c, size, usage, x)
    ELSE WebGL_createBuffer(d, c, size, usage, x)

B_createBufferWithData(b, d, c, data, usage, x) ==
    IF b = "WebGPU" THEN WebGPU_createBufferWithData(d, c, data, usage, x)
    ELSE WebGL_createBufferWithData(d, c, data, usage, x)

B_beginFrame(b, d, c, color, x) ==
    IF b = "WebGPU" THEN WebGPU_beginFrame(d, c, color, x)
    ELSE WebGL_beginFrame(d, c, color, x)

B_setPipeline(b, d, frame, pipeline) ==
    IF b = "WebGPU" THEN WebGPU_setPipeline(d, frame, pipeline)
    ELSE WebGL_setPipeline(d, frame, pipeline)

\* offset = 0 when the caller leaves it out
B_setVertexBuffer(b, d, frame, slot, buffer, offset) ==
    IF b = "WebGPU" THEN WebGPU_setVertexBuffer(d, frame, slot, buffer, offset)
    ELSE WebGL_setVertexBuffer(d, frame, slot, buffer, offset)

B_draw(b, d, frame, vertexCount, instanceCount, firstVertex, firstInstance) ==
    IF b = "WebGPU"
    THEN WebGPU_draw(d, frame, vertexCount, instanceCount, firstVertex, firstInstance)
    ELSE WebGL_draw(d, frame, vertexCount, instanceCount, firstVertex, firstInstance)

B_endFrame(b, d, c, frame) ==
    IF b = "WebGPU" THEN WebGPU_endFrame(d, c, frame)
    ELSE WebGL_endFrame(d, c, frame)

B_writeBuffer(b, d, c, buffer, data, offset) ==
    IF b = "WebGPU" THEN WebGPU_writeBuffer(d, c, buffer, data, offset)
    ELSE WebGL_writeBuffer(d, c, buffer, data, offset)

\* ------------------------------------------------------------------ state

VARIABLES
    program,      \* which demo runs: "triangle" | "triangle_buffer" ("api" in SpecAPI)
    hasCanvas,    \* document.getElementById('canvas') is non-null
    hasGpu,       \* navigator.gpu is present
    hasStatus,    \* document.getElementById('status') is non-null
    flags,        \* the BufferUsage flags the caller ORs together for its buffers
    others,       \* the other tasks the event loop has run, each with where main() stood
    pc,           \* where main() is (the await it is suspended at, or its next call)
    backend,      \* let backend: "null" | "WebGPU" | "WebGL"
    ctx,          \* let ctx: GPUContext | null
    status,       \* status.innerHTML
    logs,         \* what the logger has emitted
    mainResult,   \* the promise main() returned
    shaderModule, \* const shaderModule
    pipeline,     \* const pipeline
    vertexBuffer, \* const vertexBuffer
    frame,        \* const frame of render()
    frameCount,   \* let frameCount
    dev,          \* the platform's objects (modules, pipelines, buffers, frames)
    calls,        \* the interface calls made so far, in order
    plat          \* the platform calls made so far, in order

env == <<program, hasCanvas, hasGpu, hasStatus, flags, others>>
locals == <<shaderModule, pipeline, vertexBuffer, frame, frameCount>>
vars == <<program, hasCanvas, hasGpu, hasStatus, flags, others, pc, backend, ctx, status, logs,
          mainResult, shaderModule, pipeline, vertexBuffer, frame, frameCount,
          dev, calls, plat>>

\* one event of the interface trace: the call of op on backend b with Context c
\* and Frame f (open: f's pass was open when called), the platform calls it
\* made (plat[at+1 .. at+n]) and what it threw; for the async init, the call
\* ("init") and its settlement ("init.return") are two events
K(b, op, args, c, f, open, at, n, ret, err) ==
    [b |-> b, op |-> op, args |-> args, ctx |-> c, frame |-> f, open |-> open,
     at |-> at, n |-> n, ret |-> ret, err |-> err]

InitCall(b, at, n) == K(b, "init", <<"canvas">>, NullCtx, NullFrame, FALSE, at, n, NullHandle, NoErr)

InitReturn(b, c, at, n, err) ==
    K(b, "init.return", <<>>, c, NullFrame, FALSE, at, n, NullHandle, err)

\* the render pass of Frame f has been begun and not ended
FrameOpen(d, f) ==
    /\ f.renderPass \in 1..Len(d.frames)
    /\ d.frames[f.renderPass].ended = 0

Pending == [state |-> "pending", err |-> NoErr]
Resolved == [state |-> "resolved", err |-> NoErr]
Rejected(e) == [state |-> "rejected", err |-> e]

StatusInitial == [class |-> "none", text |-> <<>>]
StatusWebGPU == [class |-> "webgpu", text |-> <<"Using WebGPU (native)">>]
StatusWebGL == [class |-> "webgl", text |-> <<"Using WebGL2 (via wgpu WASM)">>]
StatusFailed(message) == [class |-> "error", text |-> <<"Failed: ", message>>]

\* SHADER_CODE of the running demo
SHADER_CODE == IF program = "triangle_buffer" THEN "SHADER_CODE@triangle_buffer.ts" ELSE "SHADER_CODE@triangle.ts"

Init ==
    /\ program \in {"triangle", "triangle_buffer"}
    /\ hasCanvas \in BOOLEAN
    /\ hasGpu \in BOOLEAN
    /\ hasStatus \in BOOLEAN
    /\ flags = {"VERTEX", "COPY_DST"}
    /\ others = <<>>
    /\ pc = "start"
    /\ backend = "null"
    /\ ctx = NullCtx
    /\ status = StatusInitial
    /\ logs = <<>>
    /\ mainResult = Pending
    /\ shaderModule = NullHandle
    /\ pipeline = NullHandle
    /\ vertexBuffer = NullHandle
    /\ frame = NullFrame
    /\ frameCount = 0
    /\ dev = EmptyDev
    /\ calls = <<>>
    /\ plat = <<>>

\* ------------------------------------------------------------------ main(): the selector

\* the assignment of every variable main()'s selector part writes
Go(pc1, b1, c1, s1, l1, k1, p1, m1) ==
    /\ pc' = pc1
    /\ backend' = b1
    /\ ctx' = c1
    /\ status' = s1
    /\ logs' = l1
    /\ calls' = k1
    /\ plat' = p1
    /\ mainResult' = m1
    /\ UNCHANGED <<env, locals, dev>>

\* mutant: triangle_buffer.ts never creates its vertex buffer
FirstSetupPc_SkipsBuffer == "createShaderModule"

\* the first statement after the selector, in each demo
FirstSetupPc == IF program = "triangle_buffer" THEN "createBuffer" ELSE "createShaderModule"

\* mutant: the native init is attempted without probing
Probe_Always == TRUE

\* if (navigator.gpu)
Probe == hasGpu

\* mutant: the fallback block runs whatever backend holds
FallbackGuard_Always(b1) == TRUE

\* if (!backend)
FallbackGuard(b1) == b1 = "null"

\* mutant: the native branch shows the bridge's status text
NativeBound_WrongLabel(s1, l1) ==
    [status |-> IF hasStatus THEN StatusWebGL ELSE s1,
     logs |-> log(l1, "info", <<"WebGPU backend initialized">>)]

\* try-branch after the native init resolved: status text, info()
NativeBound(s1, l1) ==
    [status |-> IF hasStatus THEN StatusWebGPU ELSE s1,
     logs |-> log(l1, "info", <<"WebGPU backend initialized">>)]

\* mutant: the catch block forgets backend = null
NativeCatch_KeepsBackend(l1, e) ==
    [logs |-> log(l1, "warn", <<"WebGPU init failed: ", Message(e)>>),
     backend |-> "WebGPU"]

\* catch (e) of the native attempt: warn(...), backend = null
NativeCatch(l1, e) ==
    [logs |-> log(l1, "warn", <<"WebGPU init failed: ", Message(e)>>),
     backend |-> "null"]

\* try-branch after the bridge init resolved: status text, info()
BridgeBound(s1, l1) ==
    [status |-> IF hasStatus THEN StatusWebGL ELSE s1,
     logs |-> log(l1, "info", <<"WebGL backend initialized">>)]

\* mutant: the catch block throws a new error instead of e
BridgeCatch_Wraps(s1, l1, e) ==
    [status |-> IF hasStatus THEN StatusFailed(Message(e)) ELSE s1,
     logs |-> log(l1, "error", <<"Both backends failed: ", Message(e)>>),
     rethrow |-> Err("Both backends failed")]

\* catch (e) of the bridge attempt: status text, error(...), throw e
BridgeCatch(s1, l1, e) ==
    [status |-> IF hasStatus THEN StatusFailed(Message(e)) ELSE s1,
     logs |-> log(l1, "error", <<"Both backends failed: ", Message(e)>>),
     rethrow |-> e]

\* if (!ctx || !backend) throw ...; then the setup sequence
AfterSelector(b1, c1, s1, l1, k1, p1) ==
    IF c1 = NullCtx \/ b1 = "null"
    THEN Go("rejected", b1, c1, s1, l1, k1, p1,
            Rejected(Err("Failed to initialize any graphics backend")))
    ELSE Go(FirstSetupPc, b1, c1, s1, l1, k1, p1, mainResult)

\* if (!backend) { backend = WebGLBackend; ctx = await backend.init(canvas) ...
Fallback(b1, c1, s1, l1, k1, p1) ==
    IF FallbackGuard(b1)
    THEN LET r == WebGL_init_1
         IN  Go("await_import", "WebGL", c1, s1, l1,
                Append(k1, InitCall("WebGL", Len(p1), Len(r.plat))), p1 \o r.plat, mainResult)
    ELSE AfterSelector(b1, c1, s1, l1, k1, p1)

\* the native init rejected with e after making platform calls p: the catch
\* block, then the fallback
NativeFailed(e, k1, p) ==
    LET c == NativeCatch(logs, e)
    IN  Fallback(c.backend, ctx, status, c.logs,
                 Append(k1, InitReturn("WebGPU", NullCtx, Len(plat), Len(p), e)), plat \o p)

\* mutant: the Context the native init returned is not stored in ctx
NativeSucceeded_DropsCtx(c1, p) ==
    LET nb == NativeBound(status, logs)
    IN  Fallback(backend, ctx, nb.status, nb.logs,
                 Append(calls, InitReturn("WebGPU", c1, Len(plat), Len(p), NoErr)), plat \o p)

\* mutant: the bridge is bound to the Context the native init returned
NativeSucceeded_BindsBridge(c1, p) ==
    LET nb == NativeBound(status, logs)
    IN  Fallback("WebGL", c1, nb.status, nb.logs,
                 Append(calls, InitReturn("WebGPU", c1, Len(plat), Len(p), NoErr)), plat \o p)

\* the native init resolved with Context c1 after making platform calls p
NativeSucceeded(c1, p) ==
    LET nb == NativeBound(status, logs)
    IN  Fallback(backend, c1, nb.status, nb.logs,
                 Append(calls, InitReturn("WebGPU", c1, Len(plat), Len(p), NoErr)), plat \o p)

\* the bridge init rejected with e after making platform calls p
BridgeFailed(e, p) ==
    LET c == BridgeCatch(status, logs, e)
    IN  Go("rejected", backend, ctx, c.status, c.logs,
           Append(calls, InitReturn("WebGL", NullCtx, Len(plat), Len(p), e)), plat \o p,
           Rejected(c.rethrow))

\* the bridge init resolved with Context c1 after making platform calls p
BridgeSucceeded(c1, p) ==
    LET bb == BridgeBound(status, logs)
    IN  AfterSelector(backend, c1, bb.status, bb.logs,
                      Append(calls, InitReturn("WebGL", c1, Len(plat), Len(p), NoErr)), plat \o p)

\* main() from its start to its first await
Main_Start ==
    /\ pc = "start"
    /\ IF ~hasCanvas
       THEN Go("rejected", backend, ctx, status, logs, calls, plat,
               Rejected(Err("Canvas element not found")))
       ELSE IF Probe
       THEN LET r == WebGPU_init_1(hasGpu)
                k1 == Append(calls, InitCall("WebGPU", Len(plat), Len(r.plat)))
            IN  IF r.err # NoErr
                THEN NativeFailed(r.err, k1, r.plat)
                ELSE Go("await_adapter", "WebGPU", ctx, status, logs, k1, plat \o r.plat, mainResult)
       ELSE Fallback(backend, ctx, status, logs, calls, plat)

\* requestAdapter() settles; main() runs to its next await
Native_AdapterSettled ==
    /\ pc = "await_adapter"
    /\ \E ax \in Outcomes, adapter \in BOOLEAN :
          LET r == WebGPU_init_2(ax, adapter)
          IN  IF r.err # NoErr
              THEN NativeFailed(r.err, calls, r.plat)
              ELSE Go("await_device", backend, ctx, status, logs, calls, plat \o r.plat, mainResult)

\* requestDevice() settles; main() runs to its next await or into the setup
Native_DeviceSettled ==
    /\ pc = "await_device"
    /\ \E dx \in Outcomes, hasContext \in BOOLEAN, format \in Formats, cx \in Outcomes :
          LET r == WebGPU_init_3(dx, hasContext, format, cx)
          IN  IF r.err # NoErr
              THEN NativeFailed(r.err, calls, r.plat)
              ELSE NativeSucceeded(r.ctx, r.plat)

\* the import of the wasm module settles
Bridge_ImportSettled ==
    /\ pc = "await_import"
    /\ \E ix \in Outcomes :
          LET r == WebGL_init_2(ix)
          IN  IF r.err # NoErr
              THEN BridgeFailed(r.err, r.plat)
              ELSE Go("await_wasm", backend, ctx, status, logs, calls, plat \o r.plat, mainResult)

\* wasm.default() settles
Bridge_WasmSettled ==
    /\ pc = "await_wasm"
    /\ \E wx \in Outcomes, dx \in Outcomes :
          LET r == WebGL_init_3(wx, dx)
          IN  IF r.err # NoErr
              THEN BridgeFailed(r.err, r.plat)
              ELSE BridgeSucceeded(r.ctx, r.plat)

\* main().catch((e) => { error(`Unhandled error: ${message}`); ... })
TopLevelCatch ==
    /\ pc = "rejected"
    /\ logs' = log(logs, "error", <<"Unhandled error: ", Message(mainResult.err)>>)
    /\ pc' = "done"
    /\ UNCHANGED <<env, locals, dev, backend, ctx, status, calls, plat, mainResult>>

\* ------------------------------------------------------------------ main(): setup and render()

\* mutant: render() draws before it sets the pipeline
PcAfter_DrawFirst(p) ==
    CASE p = "createBuffer" -> "createShaderModule"
      [] p = "createShaderModule" -> "createPipeline"
      [] p = "createPipeline" -> "beginFrame"
      [] p = "beginFrame" -> "draw"
      [] p = "draw" -> "setPipeline"
      [] p = "setPipeline" -> IF program = "triangle_buffer" THEN "setVertexBuffer" ELSE "endFrame"
      [] p = "setVertexBuffer" -> "endFrame"
      [] p = "endFrame" -> "done"

\* mutant: render() re-arms itself (requestAnimationFrame(render) enabled)
PcAfter_Rearms(p) ==
    CASE p = "createBuffer" -> "createShaderModule"
      [] p = "createShaderModule" -> "createPipeline"
      [] p = "createPipeline" -> "beginFrame"
      [] p = "beginFrame" -> "setPipeline"
      [] p = "setPipeline" -> IF program = "triangle_buffer" THEN "setVertexBuffer" ELSE "draw"
      [] p = "setVertexBuffer" -> "draw"
      [] p = "draw" -> "endFrame"
      [] p = "endFrame" -> "beginFrame"

\* the statement after statement p of main() / render(), in each demo
PcAfter(p) ==
    CASE p = "createBuffer" -> "createShaderModule"
      [] p = "createShaderModule" -> "createPipeline"
      [] p = "createPipeline" -> "beginFrame"
      [] p = "beginFrame" -> "setPipeline"
      [] p = "setPipeline" -> IF program = "triangle_buffer" THEN "setVertexBuffer" ELSE "draw"
      [] p = "setVertexBuffer" -> "draw"
      [] p = "draw" -> "endFrame"
      [] p = "endFrame" -> "done"

\* mutant: main() goes on after an interface call that threw
Sync_IgnoresThrow(op, args, c, f, r, okPc, okLogs) ==
    /\ calls' = Append(calls, K(backend, op, args, c, f, FrameOpen(dev, f),
                                Len(plat), Len(r.plat), r.ret, r.err))
    /\ plat' = plat \o r.plat
    /\ dev' = r.dev
    /\ pc' = okPc
    /\ mainResult' = IF okPc = "done" THEN Resolved ELSE mainResult
    /\ logs' = okLogs
    /\ UNCHANGED <<env, backend, ctx, status>>

\* one synchronous interface call of main(): r is what the backend did; a
\* throw rejects main(), else main() goes on at okPc having logged okLogs
Sync(op, args, c, f, r, okPc, okLogs) ==
    /\ calls' = Append(calls, K(backend, op, args, c, f, FrameOpen(dev, f),
                                Len(plat), Len(r.plat), r.ret, r.err))
    /\ plat' = plat \o r.plat
    /\ dev' = r.dev
    /\ IF r.err # NoErr
       THEN /\ pc' = "rejected"
            /\ mainResult' = Rejected(r.err)
            /\ logs' = logs
       ELSE /\ pc' = okPc
            /\ mainResult' = IF okPc = "done" THEN Resolved ELSE mainResult
            /\ logs' = okLogs
    /\ UNCHANGED <<env, backend, ctx, status>>

\* const vertexBuffer = backend.createBufferWithData(ctx, TRIANGLE_VERTICES, VERTEX | COPY_DST)
Main_CreateBuffer ==
    /\ pc = "createBuffer"
    /\ \E x \in Outcomes :
          LET r == B_createBufferWithData(backend, dev, ctx, TRIANGLE_VERTICES,
                       BitOr(BufferUsage.VERTEX, BufferUsage.COPY_DST), x)
          IN  /\ Sync("createBufferWithData", <<TRIANGLE_VERTICES, BitOr(BufferUsage.VERTEX, BufferUsage.COPY_DST)>>, ctx, NullFrame, r, PcAfter(pc),
                      log(logs, "info", <<"Vertex buffer created (", TRIANGLE_VERTICES.byteLength, " bytes)">>))
              /\ vertexBuffer' = r.ret
    /\ UNCHANGED <<shaderModule, pipeline, frame, frameCount>>

\* const shaderModule = backend.createShaderModule(ctx, SHADER_CODE, 'vs_main', 'fs_main')
Main_CreateShaderModule ==
    /\ pc = "createShaderModule"
    /\ \E x \in Outcomes :
          LET r == B_createShaderModule(backend, dev, ctx, SHADER_CODE, "vs_main", "fs_main", x)
          IN  /\ Sync("createShaderModule", <<SHADER_CODE, "vs_main", "fs_main">>, ctx, NullFrame, r, PcAfter(pc),
                      log(logs, "info", <<"Shader module created">>))
              /\ shaderModule' = r.ret
    /\ UNCHANGED <<pipeline, vertexBuffer, frame, frameCount>>

\* const pipeline = backend.createRenderPipeline(ctx, shaderModule, 'triangle-list')
\* const pipeline = backend.createRenderPipelineWithLayout(ctx, shaderModule, 'triangle-list', vertexBufferLayout)
Main_CreatePipeline ==
    /\ pc = "createPipeline"
    /\ \E x \in Outcomes :
          IF program = "triangle_buffer"
          THEN LET r == B_createRenderPipelineWithLayout(backend, dev, ctx, shaderModule,
                            "triangle-list", vertexBufferLayout, x)
               IN  /\ Sync("createRenderPipelineWithLayout", <<shaderModule, "triangle-list", vertexBufferLayout>>, ctx, NullFrame, r, PcAfter(pc),
                           log(logs, "info", <<"Render pipeline with vertex layout created">>))
                   /\ pipeline' = r.ret
          ELSE LET r == B_createRenderPipeline(backend, dev, ctx, shaderModule, "triangle-list", x)
               IN  /\ Sync("createRenderPipeline", <<shaderModule, "triangle-list">>, ctx, NullFrame, r, PcAfter(pc),
                           log(logs, "info", <<"Render pipeline created">>))
                   /\ pipeline' = r.ret
    /\ UNCHANGED <<shaderModule, vertexBuffer, frame, frameCount>>

\* render(): if (!ctx || !backend) return; const frame = backend.beginFrame(ctx, clearColor)
Render_BeginFrame ==
    /\ pc = "beginFrame"
    /\ IF ctx = NullCtx \/ backend = "null"
       THEN /\ pc' = "done"
            /\ mainResult' = Resolved
            /\ UNCHANGED <<env, backend, ctx, status, logs, dev, calls, plat, frame>>
       ELSE \E x \in Outcomes :
               LET r == B_beginFrame(backend, dev, ctx, clearColor, x)
               IN  /\ Sync("beginFrame", <<clearColor>>, ctx, r.ret, r, PcAfter(pc), logs)
                   /\ frame' = r.ret
    /\ UNCHANGED <<shaderModule, pipeline, vertexBuffer, frameCount>>

\* backend.setPipeline(frame, pipeline)
Render_SetPipeline ==
    /\ pc = "setPipeline"
    /\ Sync("setPipeline", <<pipeline>>, NullCtx, frame, B_setPipeline(backend, dev, frame, pipeline),
            PcAfter(pc), logs)
    /\ UNCHANGED locals

\* backend.setVertexBuffer(frame, 0, vertexBuffer)
Render_SetVertexBuffer ==
    /\ pc = "setVertexBuffer"
    /\ Sync("setVertexBuffer", <<0, vertexBuffer, 0>>, NullCtx, frame,
            B_setVertexBuffer(backend, dev, frame, 0, vertexBuffer, 0), PcAfter(pc), logs)
    /\ UNCHANGED locals

\* backend.draw(frame, 3, 1, 0, 0)
Render_Draw ==
    /\ pc = "draw"
    /\ Sync("draw", <<3, 1, 0, 0>>, NullCtx, frame, B_draw(backend, dev, frame, 3, 1, 0, 0), PcAfter(pc), logs)
    /\ UNCHANGED locals

\* backend.endFrame(ctx, frame); frameCount++; the first-frame message;
\* render() and main() return
Render_EndFrame ==
    /\ pc = "endFrame"
    /\ Sync("endFrame", <<>>, ctx, frame, B_endFrame(backend, dev, ctx, frame), PcAfter(pc),
            IF frameCount + 1 = 1 THEN log(logs, "info", <<"First frame rendered!">>) ELSE logs)
    /\ frameCount' = frameCount + 1
    /\ UNCHANGED <<shaderModule, pipeline, vertexBuffer, frame>>

Next ==
    \/ Main_Start
    \/ Native_AdapterSettled
    \/ Native_DeviceSettled
    \/ Bridge_ImportSettled
    \/ Bridge_WasmSettled
    \/ Main_CreateBuffer
    \/ Main_CreateShaderModule
    \/ Main_CreatePipeline
    \/ Render_BeginFrame
    \/ Render_SetPipeline
    \/ Render_SetVertexBuffer
    \/ Render_Draw
    \/ Render_EndFrame
    \/ TopLevelCatch

Spec == Init /\ [][Next]_vars

\* ------------------------------------------------------------------ the event loop

\* The page's event loop runs one task at a time to completion: another task
\* or callback (a timer, an input event, another script) runs only while
\* main() is suspended at an await or after it has finished.

\* mutant: render() awaits before it draws
Suspended_BeforeDraw(p) ==
    p \in {"await_adapter", "await_device", "await_import", "await_wasm", "draw"}

\* main() is suspended at an await: the two of WebGPUBackend.init
\* (requestAdapter, requestDevice) and the two of WebGLBackend.init (the
\* import, wasm.default()), reached through `ctx = await backend.init(canvas)`;
\* no other method of GPUBackend returns a promise and main() awaits nothing else
Suspended(p) ==
    p \in {"await_adapter", "await_device", "await_import", "await_wasm"}

\* the event loop runs a task other than main()
Loop_OtherTask ==
    /\ Suspended(pc) \/ pc = "done"
    /\ Len(others) < MaxOthers
    /\ others' = Append(others, [at |-> Len(calls), pc |-> pc])
    /\ UNCHANGED <<program, hasCanvas, hasGpu, hasStatus, flags, pc, backend, ctx, status,
                   logs, mainResult, locals, dev, calls, plat>>

NextLoop ==
    \/ Main_Start
    \/ Native_AdapterSettled
    \/ Native_DeviceSettled
    \/ Bridge_ImportSettled
    \/ Bridge_WasmSettled
    \/ Main_CreateBuffer
    \/ Main_CreateShaderModule
    \/ Main_CreatePipeline
    \/ Render_BeginFrame
    \/ Render_SetPipeline
    \/ Render_SetVertexBuffer
    \/ Render_Draw
    \/ Render_EndFrame
    \/ TopLevelCatch
    \/ Loop_OtherTask

SpecLoop == Init /\ [][NextLoop]_vars

\* ------------------------------------------------------------------ reading the traces

\* the places of the interface trace where op was called on backend b
Idx(op, b) == {i \in 1..Len(calls) : calls[i].op = op /\ calls[i].b = b}

\* the places of the interface trace where op was called, on any backend
IdxOp(op) == {i \in 1..Len(calls) : calls[i].op = op}

InitCalled(b) == Idx("init", b) # {}
InitFailed(b) == \E i \in Idx("init.return", b) : calls[i].err # NoErr
InitSucceeded(b) == \E i \in Idx("init.return", b) : calls[i].err = NoErr

\* the resource-creation and frame operations of the interface
CreateOps == {"createShaderModule", "createRenderPipeline", "createRenderPipelineWithLayout",
              "createBuffer", "createBufferWithData"}
FrameOps == {"beginFrame", "setPipeline", "setVertexBuffer", "draw", "endFrame"}

\* the selector reached Ready: an init resolved with a Context
Ready == InitSucceeded("WebGPU") \/ InitSucceeded("WebGL")

\* the selector finished: Ready, or Failed (the bridge init rejected)
SelectorFinished == Ready \/ InitFailed("WebGL")

\* ------------------------------------------------------------------ a client of GPUBackend

\* A client other than main(): it binds one backend, awaits its init(), creates
\* each resource at most once before its first frame, and then issues frame
\* operations on any Frame a beginFrame has returned to it, in any order. A
\* throw is not caught: the client stops.

InitAPI ==
    /\ program = "api"
    /\ hasCanvas = TRUE
    /\ hasGpu \in BOOLEAN
    /\ hasStatus = FALSE
    /\ flags = {"VERTEX", "COPY_DST"}
    /\ others = <<>>
    /\ pc = "api_start"
    /\ backend \in {"WebGPU", "WebGL"}
    /\ ctx = NullCtx
    /\ status = StatusInitial
    /\ logs = <<>>
    /\ mainResult = Pending
    /\ shaderModule = NullHandle
    /\ pipeline = NullHandle
    /\ vertexBuffer = NullHandle
    /\ frame = NullFrame
    /\ frameCount = 0
    /\ dev = EmptyDev
    /\ calls = <<>>
    /\ plat = <<>>

\* the Frames beginFrame has returned to the client
FramesReturned == {calls[i].frame : i \in {j \in IdxOp("beginFrame") : calls[j].err = NoErr}}

\* the number of frame operations and buffer writes the client has issued
OpsIssued == Cardinality({i \in 1..Len(calls) : calls[i].op \in FrameOps \cup {"writeBuffer"}})

\* the byte sources the client writes (an ArrayBuffer, a view into a larger
\* one) and the offsets it writes them at (the second one past the end of
\* the 24-byte vertex buffer)
WriteSources == {ArrayBufferOf(<<1, 2, 3, 4>>), ViewOf(<<9, 8, 7, 6, 5, 4, 3, 2>>, 2, 4)}
WriteOffsets == {0, 24}

\* one segment of `await backend.init(canvas)`: r is what the segment did;
\* a rejection stops the client, the last segment binds the Context
API_InitSegment(r, nextPc, k) ==
    /\ plat' = plat \o r.plat
    /\ IF r.err # NoErr
       THEN /\ pc' = "api_failed"
            /\ ctx' = ctx
            /\ calls' = Append(k, InitReturn(backend, NullCtx, Len(plat), Len(r.plat), r.err))
       ELSE IF nextPc = "api"
       THEN /\ pc' = "api"
            /\ ctx' = r.ctx
            /\ calls' = Append(k, InitReturn(backend, r.ctx, Len(plat), Len(r.plat), NoErr))
       ELSE /\ pc' = nextPc
            /\ ctx' = ctx
            /\ calls' = k
    /\ UNCHANGED <<env, backend, status, logs, mainResult, locals, dev>>

\* backend.init(canvas), to its first await
API_InitStart ==
    /\ pc = "api_start"
    /\ IF backend = "WebGPU"
       THEN LET r == WebGPU_init_1(hasGpu)
            IN  API_InitSegment(r, "api_await_adapter",
                                Append(calls, InitCall("WebGPU", Len(plat), Len(r.plat))))
       ELSE LET r == WebGL_init_1
            IN  API_InitSegment(r, "api_await_import",
                                Append(calls, InitCall("WebGL", Len(plat), Len(r.plat))))

API_AdapterSettled ==
    /\ pc = "api_await_adapter"
    /\ \E ax \in Outcomes, adapter \in BOOLEAN :
          API_InitSegment(WebGPU_init_2(ax, adapter), "api_await_device", calls)

API_DeviceSettled ==
    /\ pc = "api_await_device"
    /\ \E dx \in Outcomes, hasContext \in BOOLEAN, format \in Formats, cx \in Outcomes :
          API_InitSegment(WebGPU_init_3(dx, hasContext, format, cx), "api", calls)

API_ImportSettled ==
    /\ pc = "api_await_import"
    /\ \E ix \in Outcomes :
          API_InitSegment(WebGL_init_2(ix), "api_await_wasm", calls)

API_WasmSettled ==
    /\ pc = "api_await_wasm"
    /\ \E wx \in Outcomes, dx \in Outcomes :
          API_InitSegment(WebGL_init_3(wx, dx), "api", calls)

\* one synchronous interface call of the client: r is what the backend did
API_Call(op, args, c, f, r) ==
    /\ calls' = Append(calls, K(backend, op, args, c, f, FrameOpen(dev, f),
                                Len(plat), Len(r.plat), r.ret, r.err))
    /\ plat' = plat \o r.plat
    /\ dev' = r.dev
    /\ pc' = IF r.err # NoErr THEN "api_failed" ELSE "api"
    /\ UNCHANGED <<env, backend, ctx, status, logs, mainResult>>

API_CreateShaderModule ==
    /\ pc = "api" /\ shaderModule = NullHandle /\ OpsIssued = 0
    /\ \E x \in Outcomes :
          LET r == B_createShaderModule(backend, dev, ctx, SHADER_CODE, "vs_main", "fs_main", x)
          IN  /\ API_Call("createShaderModule", <<SHADER_CODE, "vs_main", "fs_main">>, ctx, NullFrame, r)
              /\ shaderModule' = r.ret
    /\ UNCHANGED <<pipeline, vertexBuffer, frame, frameCount>>

API_CreateRenderPipeline ==
    /\ pc = "api" /\ shaderModule # NullHandle /\ pipeline = NullHandle /\ OpsIssued = 0
    /\ \E x \in Outcomes :
          LET r == B_createRenderPipeline(backend, dev, ctx, shaderModule, "triangle-list", x)
          IN  /\ API_Call("createRenderPipeline", <<shaderModule, "triangle-list">>, ctx, NullFrame, r)
              /\ pipeline' = r.ret
    /\ UNCHANGED <<shaderModule, vertexBuffer, frame, frameCount>>

API_CreateRenderPipelineWithLayout ==
    /\ pc = "api" /\ shaderModule # NullHandle /\ pipeline = NullHandle /\ OpsIssued = 0
    /\ \E x \in Outcomes :
          LET r == B_createRenderPipelineWithLayout(backend, dev, ctx, shaderModule,
                       "triangle-list", vertexBufferLayout, x)
          IN  /\ API_Call("createRenderPipelineWithLayout", <<shaderModule, "triangle-list", vertexBufferLayout>>, ctx, NullFrame, r)
              /\ pipeline' = r.ret
    /\ UNCHANGED <<shaderModule, vertexBuffer, frame, frameCount>>

API_CreateBufferWithData ==
    /\ pc = "api" /\ vertexBuffer = NullHandle /\ OpsIssued = 0
    /\ \E x \in Outcomes :
          LET r == B_createBufferWithData(backend, dev, ctx, TRIANGLE_VERTICES,
                       BitOr(BufferUsage.VERTEX, BufferUsage.COPY_DST), x)
          IN  /\ API_Call("createBufferWithData", <<TRIANGLE_VERTICES, BitOr(BufferUsage.VERTEX, BufferUsage.COPY_DST)>>, ctx, NullFrame, r)
              /\ vertexBuffer' = r.ret
    /\ UNCHANGED <<shaderModule, pipeline, frame, frameCount>>

API_WriteBuffer ==
    /\ pc = "api" /\ OpsIssued < MaxCalls /\ vertexBuffer # NullHandle
    /\ \E data \in WriteSources, offset \in WriteOffsets :
          API_Call("writeBuffer", <<vertexBuffer, data, offset>>, ctx, NullFrame,
                   B_writeBuffer(backend, dev, ctx, vertexBuffer, data, offset))
    /\ UNCHANGED locals

API_BeginFrame ==
    /\ pc = "api" /\ OpsIssued < MaxCalls /\ Len(dev.frames) < MaxFrames
    /\ \E x \in Outcomes :
          LET r == B_beginFrame(backend, dev, ctx, clearColor, x)
          IN  /\ API_Call("beginFrame", <<clearColor>>, ctx, r.ret, r)
              /\ frame' = r.ret
    /\ UNCHANGED <<shaderModule, pipeline, vertexBuffer, frameCount>>

API_SetPipeline ==
    /\ pc = "api" /\ OpsIssued < MaxCalls /\ pipeline # NullHandle
    /\ \E f \in FramesReturned :
          API_Call("setPipeline", <<pipeline>>, NullCtx, f, B_setPipeline(backend, dev, f, pipeline))
    /\ UNCHANGED locals

API_SetVertexBuffer ==
    /\ pc = "api" /\ OpsIssued < MaxCalls /\ vertexBuffer # NullHandle
    /\ \E f \in FramesReturned :
          API_Call("setVertexBuffer", <<0, vertexBuffer, 0>>, NullCtx, f, B_setVertexBuffer(backend, dev, f, 0, vertexBuffer, 0))
    /\ UNCHANGED locals

API_Draw ==
    /\ pc = "api" /\ OpsIssued < MaxCalls
    /\ \E f \in FramesReturned :
          API_Call("draw", <<3, 1, 0, 0>>, NullCtx, f, B_draw(backend, dev, f, 3, 1, 0, 0))
    /\ UNCHANGED locals

API_EndFrame ==
    /\ pc = "api" /\ OpsIssued < MaxCalls
    /\ \E f \in FramesReturned :
          API_Call("endFrame", <<>>, ctx, f, B_endFrame(backend, dev, ctx, f))
    /\ frameCount' = frameCount + 1
    /\ UNCHANGED <<shaderModule, pipeline, vertexBuffer, frame>>

NextAPI ==
    \/ API_InitStart
    \/ API_AdapterSettled
    \/ API_DeviceSettled
    \/ API_ImportSettled
    \/ API_WasmSettled
    \/ API_CreateShaderModule
    \/ API_CreateRenderPipeline
    \/ API_CreateRenderPipelineWithLayout
    \/ API_CreateBufferWithData
    \/ API_WriteBuffer
    \/ API_BeginFrame
    \/ API_SetPipeline
    \/ API_SetVertexBuffer
    \/ API_Draw
    \/ API_EndFrame

SpecAPI == InitAPI /\ [][NextAPI]_vars

\* ------------------------------------------------------------------ a client creating buffers

\* A client that binds one backend, awaits its init() and creates its
\* buffers, one empty and one with data, with the usage mask it ORs together
\* from the flags it wants.

\* the byte sources the client uploads: ArrayBuffers, views at an offset into
\* a larger buffer, an empty view, the demo's vertices
ByteSources ==
    {ArrayBufferOf(<<1, 2, 3, 4>>),
     ViewOf(<<9, 8, 7, 6, 5, 4, 3, 2>>, 2, 4),
     ViewOf(<<9, 8, 7, 6, 5, 4, 3, 2>>, 4, 4),
     ViewOf(<<7, 7>>, 1, 0),
     TRIANGLE_VERTICES}

\* the sizes of the empty buffers the client creates
BufferSizes == {4, 24}

InitBuf ==
    /\ program = "buffers"
    /\ hasCanvas = TRUE
    /\ hasGpu = TRUE
    /\ hasStatus = FALSE
    /\ flags \in SUBSET FlagNames
    /\ others = <<>>
    /\ pc = "api_start"
    /\ backend \in {"WebGPU", "WebGL"}
    /\ ctx = NullCtx
    /\ status = StatusInitial
    /\ logs = <<>>
    /\ mainResult = Pending
    /\ shaderModule = NullHandle
    /\ pipeline = NullHandle
    /\ vertexBuffer = NullHandle
    /\ frame = NullFrame
    /\ frameCount = 0
    /\ dev = EmptyDev
    /\ calls = <<>>
    /\ plat = <<>>

\* backend.createBuffer(ctx, size, F1 | F2 | ...)
Buf_CreateBuffer ==
    /\ pc = "api" /\ IdxOp("createBuffer") = {}
    /\ \E size \in BufferSizes, x \in Outcomes :
          LET usage == OrAll(flags)
          IN  API_Call("createBuffer", <<size, usage>>, ctx, NullFrame,
                       B_createBuffer(backend, dev, ctx, size, usage, x))
    /\ UNCHANGED locals

\* const vertexBuffer = backend.createBufferWithData(ctx, data, F1 | F2 | ...)
Buf_CreateBufferWithData ==
    /\ pc = "api" /\ IdxOp("createBufferWithData") = {}
    /\ \E data \in ByteSources, x \in Outcomes :
          LET usage == OrAll(flags)
              r == B_createBufferWithData(backend, dev, ctx, data, usage, x)
          IN  /\ API_Call("createBufferWithData", <<data, usage>>, ctx, NullFrame, r)
              /\ vertexBuffer' = r.ret
    /\ UNCHANGED <<shaderModule, pipeline, frame, frameCount>>

NextBuf ==
    \/ API_InitStart
    \/ API_AdapterSettled
    \/ API_DeviceSettled
    \/ API_ImportSettled
    \/ API_WasmSettled
    \/ Buf_CreateBuffer
    \/ Buf_CreateBufferWithData

SpecBuf == InitBuf /\ [][NextBuf]_vars

\* ------------------------------------------------------------------ a client creating pipelines

\* A client that binds one backend, awaits its init(), creates a shader
\* module with the entry points it declares, and from it a pipeline without
\* and a pipeline with a vertex layout, of the topology it asks for.

\* the entry point names the client declares
VertexEntries == {"vs_main", "main_vs"}
FragmentEntries == {"fs_main", "main_fs"}

\* GPUPrimitiveTopology
Topologies == {"point-list", "line-list", "line-strip", "triangle-list", "triangle-strip"}

\* the GPUVertexFormat values the client uses: the six the bridge knows and
\* three it does not
VertexFormats ==
    {"float32", "float32x2", "float32x3", "float32x4", "uint32", "sint32",
     "unorm8x4", "float16x2", "sint32x2"}

\* the layouts the client passes: one attribute of each format, and two
\* layouts of two attributes
Layouts ==
    {[arrayStride |-> 16, attributes |-> <<[shaderLocation |-> 0, offset |-> 0, format |-> f]>>] :
        f \in VertexFormats}
    \cup {[arrayStride |-> 12,
           attributes |-> <<[shaderLocation |-> 0, offset |-> 0, format |-> "float32x2"],
                            [shaderLocation |-> 1, offset |-> 8, format |-> "unorm8x4"]>>],
          [arrayStride |-> 8,
           attributes |-> <<[shaderLocation |-> 0, offset |-> 0, format |-> "float16x2"],
                            [shaderLocation |-> 1, offset |-> 4, format |-> "snorm16x2"]>>]}

InitPipe ==
    /\ program = "pipelines"
    /\ hasCanvas = TRUE
    /\ hasGpu = TRUE
    /\ hasStatus = FALSE
    /\ flags = {"VERTEX", "COPY_DST"}
    /\ others = <<>>
    /\ pc = "api_start"
    /\ backend \in {"WebGPU", "WebGL"}
    /\ ctx = NullCtx
    /\ status = StatusInitial
    /\ logs = <<>>
    /\ mainResult = Pending
    /\ shaderModule = NullHandle
    /\ pipeline = NullHandle
    /\ vertexBuffer = NullHandle
    /\ frame = NullFrame
    /\ frameCount = 0
    /\ dev = EmptyDev
    /\ calls = <<>>
    /\ plat = <<>>

\* const shaderModule = backend.createShaderModule(ctx, SHADER_CODE, ve, fe)
Pipe_CreateShaderModule ==
    /\ pc = "api" /\ shaderModule = NullHandle
    /\ \E ve \in VertexEntries, fe \in FragmentEntries, x \in Outcomes :
          LET r == B_createShaderModule(backend, dev, ctx, SHADER_CODE, ve, fe, x)
          IN  /\ API_Call("createShaderModule", <<SHADER_CODE, ve, fe>>, ctx, NullFrame, r)
              /\ shaderModule' = r.ret
    /\ UNCHANGED <<pipeline, vertexBuffer, frame, frameCount>>

\* const pipeline = backend.createRenderPipeline(ctx, shaderModule, topology)
Pipe_CreateRenderPipeline ==
    /\ pc = "api" /\ shaderModule # NullHandle /\ IdxOp("createRenderPipeline") = {}
    /\ \E topology \in Topologies, x \in Outcomes :
          LET r == B_createRenderPipeline(backend, dev, ctx, shaderModule, topology, x)
          IN  /\ API_Call("createRenderPipeline", <<shaderModule, topology>>, ctx, NullFrame, r)
              /\ pipeline' = r.ret
    /\ UNCHANGED <<shaderModule, vertexBuffer, frame, frameCount>>

\* const pipeline = backend.createRenderPipelineWithLayout(ctx, shaderModule, topology, layout)
Pipe_CreateRenderPipelineWithLayout ==
    /\ pc = "api" /\ shaderModule # NullHandle /\ IdxOp("createRenderPipelineWithLayout") = {}
    /\ \E topology \in Topologies, layout \in Layouts, x \in Outcomes :
          LET r == B_createRenderPipelineWithLayout(backend, dev, ctx, shaderModule,
                                                    topology, layout, x)
          IN  /\ API_Call("createRenderPipelineWithLayout", <<shaderModule, topology, layout>>,
                          ctx, NullFrame, r)
              /\ pipeline' = r.ret
    /\ UNCHANGED <<shaderModule, vertexBuffer, frame, frameCount>>

NextPipe ==
    \/ API_InitStart
    \/ API_AdapterSettled
    \/ API_DeviceSettled
    \/ API_ImportSettled
    \/ API_WasmSettled
    \/ Pipe_CreateShaderModule
    \/ Pipe_CreateRenderPipeline
    \/ Pipe_CreateRenderPipelineWithLayout

SpecPipe == InitPipe /\ [][NextPipe]_vars

\* ------------------------------------------------------------------ C1

\* C1: in every startup in which navigator.gpu is absent, WebGPUBackend.init
\* is never called (nor any call into the native runtime made): every init
\* that is attempted is WebGLBackend.init.
C1_ProbeShortCircuit ==
    ~hasGpu =>
        /\ ~InitCalled("WebGPU")
        /\ \A i \in IdxOp("init") : calls[i].b = "WebGL"
        /\ \A j \in 1..Len(plat) :
              plat[j].op \notin {"navigator.gpu.requestAdapter", "adapter.requestDevice",
                                 "navigator.gpu.getPreferredCanvasFormat"}

\* navigator.gpu absent, and the selector went on to call the bridge init
C1_Witness == ~hasGpu /\ InitCalled("WebGL") /\ pc = "done"

\* ------------------------------------------------------------------ C2

\* C2: whenever WebGPUBackend.init rejects with e, the selector has logged
\* the warning "WebGPU init failed: <message of e>", has called
\* WebGLBackend.init afterwards, and main() is rejected only with an error a
\* later call threw, never because of the native failure.
C2_NativeFailureNotFatal ==
    \A i \in Idx("init.return", "WebGPU") :
        calls[i].err # NoErr =>
            /\ \E n \in 1..Len(logs) :
                  logs[n] = [level |-> "warn",
                             text |-> <<"WebGPU init failed: ", Message(calls[i].err)>>]
            /\ \E j \in Idx("init", "WebGL") : j > i
            /\ mainResult.state = "rejected" =>
                  \E j \in 1..Len(calls) : j > i /\ calls[j].err # NoErr
                                              /\ calls[j].err = mainResult.err

\* the native init rejected with a thrown non-Error value, the bridge took
\* over and main() resolved
C2_Witness ==
    /\ \E i \in Idx("init.return", "WebGPU") : calls[i].err = Thrown("platform panic")
    /\ InitSucceeded("WebGL")
    /\ mainResult = Resolved

\* ------------------------------------------------------------------ C3

\* C3: whenever WebGLBackend.init rejects with e, main() is rejected with
\* that same e, startup is over, and no resource-creation or frame operation
\* has been called on any backend or reached the platform.
C3_BridgeFailureFatal ==
    \A i \in Idx("init.return", "WebGL") :
        calls[i].err # NoErr =>
            /\ mainResult = Rejected(calls[i].err)
            /\ pc \in {"rejected", "done"}
            /\ \A j \in 1..Len(calls) : calls[j].op \notin CreateOps \cup FrameOps
            /\ dev = EmptyDev

\* the bridge init rejected and the top-level handler has run
C3_Witness == InitFailed("WebGL") /\ pc = "done" /\ hasGpu

\* ------------------------------------------------------------------ C4

\* C4: each backend's init is called at most once; a native init call comes
\* before the bridge one; the bridge init has been called if and only if the
\* native one was skipped or failed (once the selector has run its probe);
\* and once the native init succeeded the bridge module is never loaded.
C4_LinearNoRetries ==
    /\ Cardinality(Idx("init", "WebGPU")) <= 1
    /\ Cardinality(Idx("init", "WebGL")) <= 1
    /\ \A i \in Idx("init", "WebGPU"), j \in Idx("init", "WebGL") : i < j
    /\ (hasCanvas /\ pc # "start") =>
          (InitCalled("WebGL") <=> (~InitCalled("WebGPU") \/ InitFailed("WebGPU")))
    /\ InitSucceeded("WebGPU") =>
          /\ ~InitCalled("WebGL")
          /\ \A j \in 1..Len(plat) : plat[j].op \notin {"import", "wasm.default", "wasm.createDevice"}

\* the native init was called and failed, then the bridge init was called
\* and succeeded
C4_Witness == InitFailed("WebGPU") /\ InitSucceeded("WebGL") /\ pc = "done"

\* ------------------------------------------------------------------ C5

\* C5: once the selector has reached Ready, exactly one init has succeeded,
\* backend and ctx are (and stay) the backend whose init succeeded and the
\* Context it returned, and every setup and frame operation is called on that
\* backend, with that Context where it takes one.
C5_BoundOnceAtReady ==
    Ready =>
        /\ Cardinality({i \in IdxOp("init.return") : calls[i].err = NoErr}) = 1
        /\ \A i \in IdxOp("init.return") :
              calls[i].err = NoErr =>
                  /\ backend = calls[i].b
                  /\ ctx = calls[i].ctx
                  /\ ctx # NullCtx
                  /\ \A j \in 1..Len(calls) :
                        calls[j].op \in CreateOps \cup FrameOps =>
                            /\ j > i
                            /\ calls[j].b = calls[i].b
                            /\ calls[j].ctx \in {calls[i].ctx, NullCtx}

\* Ready was reached through the fallback and a whole frame was rendered
C5_Witness == InitFailed("WebGPU") /\ Ready /\ IdxOp("endFrame") # {}

\* ------------------------------------------------------------------ C6

\* the error the bridge init rejected with (NoErr if it did not)
BridgeInitError ==
    IF InitFailed("WebGL")
    THEN calls[CHOOSE i \in Idx("init.return", "WebGL") : TRUE].err
    ELSE NoErr

\* C6 as claimed: when the selector has finished, the status reads 'Using
\* WebGPU (native)' iff the native backend is bound, 'Using WebGL2 (via wgpu
\* WASM)' iff the bridge is bound, and 'Failed: <message>' iff both inits
\* failed.
C6_AsClaimed ==
    SelectorFinished =>
        /\ status = StatusWebGPU <=> InitSucceeded("WebGPU")
        /\ status = StatusWebGL <=> InitSucceeded("WebGL")
        /\ status.class = "error" <=> (InitFailed("WebGPU") /\ InitFailed("WebGL"))

\* C6 (amended): when the selector has finished and the page has a status
\* element, the status reads 'Using WebGPU (native)' iff the native backend
\* is bound, 'Using WebGL2 (via wgpu WASM)' iff the bridge is bound, and
\* 'Failed: <message of the bridge error>' iff the bridge init failed (the
\* native init having failed or having been skipped by the probe); without a
\* status element nothing is shown.
C6_StatusNamesOutcome ==
    /\ SelectorFinished /\ hasStatus =>
          /\ status = StatusWebGPU <=> (InitSucceeded("WebGPU") /\ backend = "WebGPU")
          /\ status = StatusWebGL <=> (InitSucceeded("WebGL") /\ backend = "WebGL")
          /\ status.class = "error" <=> InitFailed("WebGL")
          /\ InitFailed("WebGL") => status = StatusFailed(Message(BridgeInitError))
          /\ status # StatusInitial
    /\ ~hasStatus => status = StatusInitial

\* the probe skipped the native init, the bridge init failed, and the status
\* shows the failure
C6_Witness ==
    /\ hasStatus /\ ~hasGpu /\ ~InitCalled("WebGPU") /\ InitFailed("WebGL")
    /\ status = StatusFailed("platform panic")

\* ------------------------------------------------------------------ C8

\* the Frame returned by the latest beginFrame that returned before place i
LatestFrame(i) ==
    LET begun == {j \in IdxOp("beginFrame") : j < i /\ calls[j].err = NoErr}
    IN  IF begun = {} THEN NullFrame
        ELSE calls[CHOOSE j \in begun : \A k \in begun : k <= j].frame

\* C8: every setPipeline / setVertexBuffer / draw / endFrame the driver
\* issues is on the Frame of the latest beginFrame, whose pass is open (begun
\* and not ended); on one Frame there is one setPipeline, then the
\* setVertexBuffer calls, then one draw, then one endFrame, in that order;
\* and a beginFrame is issued only when no earlier Frame is still open.
C8_PerFrameSequence ==
    /\ \A i \in 1..Len(calls) :
          calls[i].op \in FrameOps \ {"beginFrame"} =>
              /\ calls[i].frame = LatestFrame(i)
              /\ calls[i].frame # NullFrame
              /\ calls[i].open
    /\ \A i \in IdxOp("beginFrame") :
          \A j \in IdxOp("beginFrame") :
              (j < i /\ calls[j].err = NoErr) =>
                  \E k \in IdxOp("endFrame") : j < k /\ k < i /\ calls[k].frame = calls[j].frame
    /\ \A i \in 1..Len(calls), j \in 1..Len(calls) :
          (i < j /\ calls[i].op \in FrameOps /\ calls[j].op \in FrameOps
                 /\ calls[i].frame = calls[j].frame) =>
              \/ calls[i].op = "beginFrame" /\ calls[j].op # "beginFrame"
              \/ calls[i].op = "setPipeline" /\ calls[j].op \in {"setVertexBuffer", "draw", "endFrame"}
              \/ calls[i].op = "setVertexBuffer" /\ calls[j].op \in {"setVertexBuffer", "draw", "endFrame"}
              \/ calls[i].op = "draw" /\ calls[j].op = "endFrame"
    /\ \A j \in IdxOp("draw") :
          \E i \in IdxOp("setPipeline") : i < j /\ calls[i].frame = calls[j].frame
    /\ \A j \in IdxOp("endFrame") :
          \E i \in IdxOp("draw") : i < j /\ calls[i].frame = calls[j].frame

\* triangle_buffer.ts rendered its frame: all five operations were issued
C8_Witness ==
    /\ program = "triangle_buffer" /\ pc = "done" /\ frameCount = 1
    /\ IdxOp("setVertexBuffer") # {} /\ IdxOp("endFrame") # {}

\* ------------------------------------------------------------------ C9

\* the creation calls made so far, in order
RECURSIVE CreationsFrom(_)
CreationsFrom(i) ==
    IF i > Len(calls) THEN <<>>
    ELSE (IF calls[i].op \in CreateOps THEN <<calls[i].op>> ELSE <<>>) \o CreationsFrom(i + 1)

\* C9 as claimed: the shader module is created first, then the pipeline,
\* then the buffers, each at most once and all before the first beginFrame.
C9_AsClaimed ==
    /\ \A i \in IdxOp("createShaderModule") :
          \A j \in IdxOp("createRenderPipeline") \cup IdxOp("createRenderPipelineWithLayout") : i < j
    /\ \A i \in IdxOp("createRenderPipeline") \cup IdxOp("createRenderPipelineWithLayout") :
          \A j \in IdxOp("createBuffer") \cup IdxOp("createBufferWithData") : i < j
    /\ \A i \in 1..Len(calls) : \A j \in IdxOp("beginFrame") :
          calls[i].op \in CreateOps => i < j

\* the creation calls of each demo, in the order of its statements
SetupOrder ==
    IF program = "triangle_buffer"
    THEN <<"createBufferWithData", "createShaderModule", "createRenderPipelineWithLayout">>
    ELSE <<"createShaderModule", "createRenderPipeline">>

\* C9 (amended): after a successful init the driver issues its creation
\* calls each at most once, in the demo's own fixed order (triangle.ts:
\* shader module, pipeline; triangle_buffer.ts: vertex buffer, shader module,
\* pipeline with layout), stopping at the first one that throws; the first
\* beginFrame happens only after all of them have returned, and no creation
\* call is issued after it.
C9_SetupSequence ==
    /\ Len(CreationsFrom(1)) <= Len(SetupOrder)
    /\ CreationsFrom(1) = SubSeq(SetupOrder, 1, Len(CreationsFrom(1)))
    /\ \A i \in 1..Len(calls) :
          calls[i].op \in CreateOps => \E r \in IdxOp("init.return") : r < i /\ calls[r].err = NoErr
    /\ \A i \in 1..Len(calls) :
          (calls[i].op \in CreateOps /\ calls[i].err # NoErr) => i = Len(calls)
    /\ IdxOp("beginFrame") # {} =>
          /\ CreationsFrom(1) = SetupOrder
          /\ \A i \in 1..Len(calls) : \A j \in IdxOp("beginFrame") :
                calls[i].op \in CreateOps => (i < j /\ calls[i].err = NoErr)

\* triangle_buffer.ts finished its setup (buffer, module, pipeline) and began
\* the frame
C9_Witness ==
    /\ program = "triangle_buffer" /\ IdxOp("beginFrame") # {}
    /\ CreationsFrom(1) = SetupOrder

\* ------------------------------------------------------------------ C7

\* C7 as claimed: a draw on a Frame whose pass is not open (never begun, or
\* already ended), and an endFrame on a Frame that was already ended, throws
\* an error and makes no platform call.
C7_InvalidFrameCallsRejected ==
    \A i \in 1..Len(calls) :
        (calls[i].op \in {"draw", "endFrame"} /\ ~calls[i].open) =>
            (calls[i].err # NoErr /\ calls[i].n = 0)

\* ------------------------------------------------------------------ C10

\* the places of the platform trace where op was called
PlatIdx(op) == {j \in 1..Len(plat) : plat[j].op = op}

\* C10: on both backends every endFrame call makes exactly three platform
\* calls, in this order: end of the Frame's render pass, finish of the
\* Frame's command encoder, submit on the queue of the Context it was given
\* (the bound one); every queue.submit in the platform trace is the third
\* call of one endFrame, so there are as many submits as endFrame calls and
\* none before the first endFrame.
C10_EndFrameOrdering ==
    /\ \A i \in IdxOp("endFrame") :
          LET k == calls[i]
          IN  /\ k.n = 3
              /\ k.ctx = ctx
              /\ plat[k.at + 1].op = "pass.end" /\ plat[k.at + 1].obj = k.frame.renderPass
              /\ plat[k.at + 2].op = "encoder.finish" /\ plat[k.at + 2].obj = k.frame.commandEncoder
              /\ plat[k.at + 3].op = "queue.submit" /\ plat[k.at + 3].obj = k.ctx.queue
    /\ \A j \in PlatIdx("queue.submit") :
          \E i \in IdxOp("endFrame") : j = calls[i].at + 3
    /\ \A j \in PlatIdx("encoder.finish") :
          \E i \in IdxOp("endFrame") : j = calls[i].at + 2
    /\ Cardinality(PlatIdx("queue.submit")) = Cardinality(IdxOp("endFrame"))

\* both Frames of a client were ended, on the native backend
C10_Witness ==
    /\ backend = "WebGPU"
    /\ Cardinality(IdxOp("endFrame")) = 2
    /\ Cardinality({calls[i].frame : i \in IdxOp("endFrame")}) = 2

\* ------------------------------------------------------------------ C11

\* the recording operations of the interface and of the render-pass recorder
RecordOps == {"setPipeline", "setVertexBuffer", "draw"}
PassOps == {"pass.setPipeline", "pass.setVertexBuffer", "pass.draw"}

\* the recorder's name of an interface recording operation
PassOp(op) ==
    CASE op = "setPipeline" -> "pass.setPipeline"
      [] op = "setVertexBuffer" -> "pass.setVertexBuffer"
      [] op = "draw" -> "pass.draw"

\* what the caller issued on Frame f, in call order: <<recorder op, args>>
IssuedOn(f) ==
    LET OnF(k) == k.op \in RecordOps /\ k.frame = f
        sel == SelectSeq(calls, OnF)
    IN  [i \in 1..Len(sel) |-> <<PassOp(sel[i].op), sel[i].args>>]

\* what the recorder of Frame f received, in order: <<recorder op, args>>
RecordedOn(f) ==
    LET OnF(e) == e.op \in PassOps /\ e.obj = f.renderPass
        sel == SelectSeq(plat, OnF)
    IN  [i \in 1..Len(sel) |-> <<sel[i].op, sel[i].args>>]

\* C11: on both backends every setPipeline / setVertexBuffer / draw call
\* makes, before it returns, exactly one call to the recorder of its Frame's
\* render pass: the same operation with the same arguments; the recorder
\* receives no other command; so for every Frame the sequence the recorder
\* received equals the sequence the caller issued on it.
C11_RecordingOrder ==
    /\ \A i \in 1..Len(calls) :
          calls[i].op \in RecordOps =>
              /\ calls[i].n = 1
              /\ plat[calls[i].at + 1] =
                     P(PassOp(calls[i].op), calls[i].frame.renderPass, calls[i].args)
    /\ \A j \in 1..Len(plat) :
          plat[j].op \in PassOps =>
              \E i \in 1..Len(calls) : calls[i].op \in RecordOps /\ j = calls[i].at + 1
    /\ \A f \in FramesReturned : RecordedOn(f) = IssuedOn(f)

\* on the bridge, a pipeline, a vertex buffer and a draw were recorded on one
\* Frame
C11_Witness ==
    /\ backend = "WebGL"
    /\ \E f \in FramesReturned :
          /\ Len(IssuedOn(f)) = 3
          /\ IssuedOn(f)[1][1] = "pass.setPipeline"
          /\ IssuedOn(f)[2][1] = "pass.setVertexBuffer"
          /\ IssuedOn(f)[3] = <<"pass.draw", <<3, 1, 0, 0>>>>

\* ------------------------------------------------------------------ C13

\* src written over old at offset
Overlay(old, src, offset) ==
    [i \in 1..Len(old) |-> IF i > offset /\ i <= offset + Len(src) THEN src[i - offset] ELSE old[i]]

\* the bytes buffer n holds if every data-carrying call up to place i that
\* returned has transferred its bytes, in call order
RECURSIVE LatestWritten(_, _)
LatestWritten(n, i) ==
    IF i = 0 THEN <<>>
    ELSE LET k == calls[i]
             was == LatestWritten(n, i - 1)
         IN  IF k.err # NoErr THEN was
             ELSE IF k.op = "createBufferWithData" /\ k.ret.id = n THEN Uint8ArrayOf(k.args[1])
             ELSE IF k.op = "writeBuffer" /\ k.args[1].id = n
                  THEN Overlay(was, Uint8ArrayOf(k.args[2]), k.args[3])
             ELSE was

\* C13 as claimed: on both backends, whenever a data-carrying call
\* (createBufferWithData, writeBuffer) has returned, the backend's buffer
\* holds the bytes of the data-carrying calls made so far, the latest on top;
\* so a draw reads the latest write that preceded it.
C13_LatestWriteVisible ==
    \A n \in 1..Len(dev.buffers) : dev.buffers[n].bytes = LatestWritten(n, Len(calls))

\* ------------------------------------------------------------------ C14

\* the last interface call, when this step made one
Called(op) ==
    /\ Len(calls') = Len(calls) + 1
    /\ calls'[Len(calls')].op = op

\* C14: every writeBuffer call on the bridge returns without throwing, makes
\* exactly one platform call, which is a console warning saying that
\* writeBuffer is not implemented, and leaves the platform's buffers,
\* modules, pipelines and frames, the Context and the client's handles as
\* they were; the client goes on.
C14_BridgeWriteBufferUnsupported ==
    [][(Called("writeBuffer") /\ backend = "WebGL") =>
          LET k == calls'[Len(calls')]
          IN  /\ k.err = NoErr
              /\ k.n = 1
              /\ plat' = Append(plat,
                     P("console.warn", 0,
                       <<"WebGL: writeBuffer not fully implemented yet, use createBufferWithData instead">>))
              /\ dev' = dev
              /\ ctx' = ctx
              /\ <<shaderModule, pipeline, vertexBuffer, frame>>' = <<shaderModule, pipeline, vertexBuffer, frame>>
              /\ pc' = "api"]_vars

\* a writeBuffer was called on the bridge while a Frame was open, and the
\* frame was ended afterwards
C14_Witness ==
    /\ backend = "WebGL"
    /\ \E i \in IdxOp("writeBuffer"), j \in IdxOp("beginFrame"), e \in IdxOp("endFrame") :
          j < i /\ i < e /\ calls[e].frame = calls[j].frame

\* ------------------------------------------------------------------ C15

\* the createBufferWithData calls that returned a buffer
Uploaded == {i \in IdxOp("createBufferWithData") : calls[i].err = NoErr}

C16_UploadRoundTrip ==
    \A i \in Uploaded :
        LET b == dev.buffers[calls[i].ret.id]
            data == calls[i].args[1]
        IN  /\ b.size = data.byteLength
            /\ Len(b.bytes) = data.byteLength
            /\ \A j \in 1..data.byteLength : b.bytes[j] = data.buffer[data.byteOffset + j]
            /\ ~data.isView => b.bytes = data.buffer

\* a view at offset 2 into a larger buffer was uploaded on the bridge
C16_Witness ==
    /\ backend = "WebGL"
    /\ \E i \in Uploaded :
          /\ calls[i].args[1] = ViewOf(<<9, 8, 7, 6, 5, 4, 3, 2>>, 2, 4)
          /\ dev.buffers[calls[i].ret.id].bytes = <<7, 6, 5, 4>>

\* ------------------------------------------------------------------ C20

\* C20: the ten usage flags have the native values 0x1, 0x2, 0x4, 0x8, 0x10,
\* 0x20, 0x40, 0x80, 0x100, 0x200, pairwise distinct single bits; for every
\* set of flags the mask the caller ORs together from it reports, flag by
\* flag, exactly the flags of the set, and that is the mask createBuffer
\* hands to the platform on both backends; VERTEX | COPY_DST is 0x28 and
\* reports VERTEX and COPY_DST only.
C20_UsageEncoding ==
    /\ BufferUsage = [MAP_READ |-> 1, MAP_WRITE |-> 2, COPY_SRC |-> 4, COPY_DST |-> 8,
                      INDEX |-> 16, VERTEX |-> 32, UNIFORM |-> 64, STORAGE |-> 128,
                      INDIRECT |-> 256, QUERY_RESOLVE |-> 512]
    /\ \A f \in FlagNames : \E k \in 0..9 : BufferUsage[f] = 2^k
    /\ \A f \in FlagNames, g \in FlagNames : f # g => BufferUsage[f] # BufferUsage[g]
    /\ LET mask == OrAll(flags)
       IN  /\ FlagsOf(mask) = flags
           /\ \A f \in flags : BitAnd(mask, BufferUsage[f]) = BufferUsage[f]
           /\ flags = {"VERTEX", "COPY_DST"} => mask = 40
    /\ \A i \in IdxOp("createBuffer") :
          /\ FlagsOf(calls[i].args[2]) = flags
          /\ FlagsOf(plat[calls[i].at + 1].args[2]) = flags

\* a buffer was created with VERTEX | COPY_DST on the bridge
C20_Witness ==
    /\ backend = "WebGL" /\ flags = {"VERTEX", "COPY_DST"}
    /\ \E i \in IdxOp("createBuffer") :
          calls[i].err = NoErr /\ dev.buffers[calls[i].ret.id].usage = 40

\* ------------------------------------------------------------------ C17

\* C17: on the bridge, createRenderPipelineWithLayout maps every attribute's
\* format without failing: it always reaches the wasm constructor, with the
\* stride, locations and offsets as given and each format mapped to the
\* member of the same name ('float32x2' to Float32x2, ...) or, for any other
\* value, to Float32x4; it warns once for each attribute of another format,
\* in order, naming the format, and for no other; and when the constructor
\* does not throw, the pipeline it built is returned.
C17_VertexFormatTotal ==
    \A i \in Idx("createRenderPipelineWithLayout", "WebGL") :
        LET k == calls[i]
            layout == k.args[3]
            SameName(f) ==
                CASE f = "float32" -> "Float32"
                  [] f = "float32x2" -> "Float32x2"
                  [] f = "float32x3" -> "Float32x3"
                  [] f = "float32x4" -> "Float32x4"
                  [] f = "uint32" -> "Uint32"
                  [] f = "sint32" -> "Sint32"
                  [] OTHER -> "Float32x4"
            Known(f) == f \in {"float32", "float32x2", "float32x3", "float32x4", "uint32", "sint32"}
            unknown == {j \in 1..Len(layout.attributes) : ~Known(layout.attributes[j].format)}
            warned == SelectSeq(layout.attributes, LAMBDA a : ~Known(a.format))
            built == plat[k.at + k.n].args[1]
        IN  /\ k.n = Cardinality(unknown) + 1
            /\ \A j \in 1..(k.n - 1) :
                  /\ plat[k.at + j].op = "console.warn"
                  /\ plat[k.at + j].args[2] = warned[j].format
            /\ plat[k.at + k.n].op = "wasm.createRenderPipelineWithLayout"
            /\ built.layout.arrayStride = layout.arrayStride
            /\ Len(built.layout.attributes) = Len(layout.attributes)
            /\ \A j \in 1..Len(layout.attributes) :
                  /\ built.layout.attributes[j].format = SameName(layout.attributes[j].format)
                  /\ built.layout.attributes[j].shaderLocation = layout.attributes[j].shaderLocation
                  /\ built.layout.attributes[j].offset = layout.attributes[j].offset
            /\ k.err = NoErr =>
                  /\ k.ret.id \in 1..Len(dev.pipelines)
                  /\ dev.pipelines[k.ret.id] = built

\* the bridge returned a pipeline for a layout whose second attribute has a
\* format it does not know, after one warning
C17_Witness ==
    \E i \in Idx("createRenderPipelineWithLayout", "WebGL") :
        /\ calls[i].err = NoErr /\ calls[i].n = 2
        /\ calls[i].args[3].attributes[Len(calls[i].args[3].attributes)].format = "unorm8x4"
        /\ dev.pipelines[calls[i].ret.id].layout.attributes[2].format = "Float32x4"
        /\ dev.pipelines[calls[i].ret.id].layout.attributes[1].format = "Float32x2"

\* ------------------------------------------------------------------ C18

\* the pipeline creation calls that returned a pipeline
PipelinesBuilt ==
    {i \in IdxOp("createRenderPipeline") \cup IdxOp("createRenderPipelineWithLayout") :
        calls[i].err = NoErr}

\* C18 as claimed: every pipeline built by createRenderPipeline or
\* createRenderPipelineWithLayout has the topology it was asked for: the
\* requested value itself on the native backend, the member of the bridge
\* module's enumeration that corresponds to it on the bridge.
C18_TopologyTranslated ==
    \A i \in PipelinesBuilt :
        LET asked == calls[i].args[2]
            built == dev.pipelines[calls[i].ret.id].topology
        IN  IF calls[i].b = "WebGPU" THEN built = asked
            ELSE built = CASE asked = "point-list" -> "PointList"
                           [] asked = "line-list" -> "LineList"
                           [] asked = "line-strip" -> "LineStrip"
                           [] asked = "triangle-list" -> "TriangleList"
                           [] asked = "triangle-strip" -> "TriangleStrip"

\* ------------------------------------------------------------------ C19

\* C19 as claimed: every native pipeline binds, as vertex and fragment entry
\* point, the two names its shader module was created with.
C19_EntryPointsBound ==
    \A i \in PipelinesBuilt :
        calls[i].b = "WebGPU" =>
            \A j \in IdxOp("createShaderModule") :
                (calls[j].err = NoErr /\ calls[j].ret = calls[i].args[1]) =>
                    /\ dev.pipelines[calls[i].ret.id].vertexEntry = calls[j].args[2]
                    /\ dev.pipelines[calls[i].ret.id].fragmentEntry = calls[j].args[3]

\* ------------------------------------------------------------------ C12

\* the Context a successful init of backend b returns
ReplayCtx(b) ==
    IF b = "WebGPU" THEN WebGPU_init_3(NoErr, TRUE, "bgra8unorm", NoErr).ctx
    ELSE WebGL_init_3(NoErr, NoErr).ctx

\* the handles and Frames of backend b that stand for those of the run
Kind(b) == IF b = "WebGPU" THEN "gpu" ELSE "wasm"
AsHandle(b, h) == IF h = NullHandle THEN h ELSE [kind |-> Kind(b), id |-> h.id]
AsFrame(b, f) ==
    [kind |-> Kind(b), commandEncoder |-> f.commandEncoder, renderPass |-> f.renderPass]

\* the interface calls of the run that are replayed: all but the init and
\* the calls the platform failed
Replayed(k) ==
    /\ k.op \notin {"init", "init.return"}
    /\ k.op = "writeBuffer" \/ k.err = NoErr

\* call k made on backend b, with the platform objects d
Step(b, d, k) ==
    LET c == ReplayCtx(b)
        f == AsFrame(b, k.frame)
        a == k.args
    IN  CASE k.op = "createShaderModule" ->
                 B_createShaderModule(b, d, c, a[1], a[2], a[3], NoErr)
          [] k.op = "createRenderPipeline" ->
                 B_createRenderPipeline(b, d, c, AsHandle(b, a[1]), a[2], NoErr)
          [] k.op = "createRenderPipelineWithLayout" ->
                 B_createRenderPipelineWithLayout(b, d, c, AsHandle(b, a[1]), a[2], a[3], NoErr)
          [] k.op = "createBuffer" -> B_createBuffer(b, d, c, a[1], a[2], NoErr)
          [] k.op = "createBufferWithData" -> B_createBufferWithData(b, d, c, a[1], a[2], NoErr)
          [] k.op = "writeBuffer" -> B_writeBuffer(b, d, c, AsHandle(b, a[1]), a[2], a[3])
          [] k.op = "beginFrame" -> B_beginFrame(b, d, c, a[1], NoErr)
          [] k.op = "setPipeline" -> B_setPipeline(b, d, f, AsHandle(b, a[1]))
          [] k.op = "setVertexBuffer" -> B_setVertexBuffer(b, d, f, a[1], AsHandle(b, a[2]), a[3])
          [] k.op = "draw" -> B_draw(b, d, f, a[1], a[2], a[3], a[4])
          [] k.op = "endFrame" -> B_endFrame(b, d, c, f)

\* the first i calls of the run made on backend b: the platform objects, the
\* platform calls, and whether each call threw
RECURSIVE Replay(_, _)
Replay(b, i) ==
    IF i = 0 THEN [dev |-> EmptyDev, plat |-> <<>>, threw |-> <<>>]
    ELSE LET was == Replay(b, i - 1)
         IN  IF ~Replayed(calls[i]) THEN was
             ELSE LET r == Step(b, was.dev, calls[i])
                  IN  [dev |-> r.dev, plat |-> was.plat \o r.plat,
                       threw |-> Append(was.threw, r.err # NoErr)]

\* a topology and a vertex format in the interface's vocabulary
CanonTopology(t) == IF t = "TriangleList" THEN "triangle-list" ELSE t
CanonFormat(f) ==
    CASE f = "Float32" -> "float32"
      [] f = "Float32x2" -> "float32x2"
      [] f = "Float32x3" -> "float32x3"
      [] f = "Float32x4" -> "float32x4"
      [] f = "Uint32" -> "uint32"
      [] f = "Sint32" -> "sint32"
      [] OTHER -> f

\* the abstract trace of a replay: the resources with their attributes, the
\* passes with their clear colour, the commands each pass recorded, the
\* number of submissions of each frame, and which calls threw
Abstract(t) ==
    [modules |-> [i \in 1..Len(t.dev.modules) |-> t.dev.modules[i].code],
     pipelines |-> [i \in 1..Len(t.dev.pipelines) |->
         LET q == t.dev.pipelines[i]
             m == t.dev.modules[q.module.id]
         IN  [module |-> q.module.id,
              vertexEntry |-> IF q.kind = "gpu" THEN q.vertexEntry ELSE m.vertexEntry,
              fragmentEntry |-> IF q.kind = "gpu" THEN q.fragmentEntry ELSE m.fragmentEntry,
              topology |-> CanonTopology(q.topology),
              arrayStride |-> q.layout.arrayStride,
              attributes |-> [j \in 1..Len(q.layout.attributes) |->
                  [shaderLocation |-> q.layout.attributes[j].shaderLocation,
                   offset |-> q.layout.attributes[j].offset,
                   format |-> CanonFormat(q.layout.attributes[j].format)]]]],
     buffers |-> [i \in 1..Len(t.dev.buffers) |->
         [size |-> t.dev.buffers[i].size, usage |-> t.dev.buffers[i].usage,
          bytes |-> t.dev.buffers[i].bytes]],
     frames |-> [i \in 1..Len(t.dev.frames) |->
         [clear |-> t.dev.frames[i].clear, submitted |-> t.dev.frames[i].submitted,
          commands |->
              LET rec == SelectSeq(t.plat, LAMBDA e : e.op \in PassOps /\ e.obj = i)
              IN  [j \in 1..Len(rec) |->
                      CASE rec[j].op = "pass.setPipeline" ->
                               <<rec[j].op, rec[j].args[1].id>>
                        [] rec[j].op = "pass.setVertexBuffer" ->
                               <<rec[j].op, rec[j].args[1], rec[j].args[2].id, rec[j].args[3]>>
                        [] rec[j].op = "pass.draw" ->
                               <<rec[j].op, rec[j].args>>]]],
     threw |-> t.threw]

\* C12 as claimed: the interface calls made so far produce the same abstract
\* trace on the native backend and on the bridge: the same resources with
\* the same attributes, passes cleared to the same colour, the same recorded
\* commands in the same order, the same number of submissions per frame.
C12_BackendsEquivalent ==
    Abstract(Replay("WebGPU", Len(calls))) = Abstract(Replay("WebGL", Len(calls)))

\* ------------------------------------------------------------------ C21

\* the places of the interface trace where the native init returned a Context
NativeInits == {i \in Idx("init.return", "WebGPU") : calls[i].err = NoErr}

\* the platform calls of the init that returned at place i of the trace:
\* from the first call of its first segment to the last of its last one
InitPlat(i) ==
    LET c == CHOOSE j \in Idx("init", calls[i].b) : j < i
    IN  (calls[c].at + 1) .. (calls[i].at + calls[i].n)

\* C21: on the native backend the surface's preferred format is queried
\* exactly once, inside init; every pipeline createRenderPipeline or
\* createRenderPipelineWithLayout builds against the Context has one colour
\* target, of the format the Context got at init; and after init the bound
\* Context is the one init returned: its format, device and queue never change.
C21_FormatFixedPerContext ==
    \A i \in NativeInits :
        /\ Cardinality(PlatIdx("navigator.gpu.getPreferredCanvasFormat")) = 1
        /\ PlatIdx("navigator.gpu.getPreferredCanvasFormat") \subseteq InitPlat(i)
        /\ \A c \in PlatIdx("context.configure") : plat[c].args[1] = calls[i].ctx.format
        /\ ctx = calls[i].ctx
        /\ \A j \in PipelinesBuilt :
              /\ calls[j].ctx = calls[i].ctx
              /\ dev.pipelines[calls[j].ret.id].format = calls[i].ctx.format
        /\ \A p \in PlatIdx("device.createRenderPipeline") :
              plat[p].args[1].format = calls[i].ctx.format

\* both kinds of pipeline were built against a native Context whose format
\* is not the first of the formats
C21_Witness ==
    /\ NativeInits # {}
    /\ ctx.format = "rgba8unorm"
    /\ \E j \in PipelinesBuilt : calls[j].op = "createRenderPipeline"
    /\ \E j \in PipelinesBuilt : calls[j].op = "createRenderPipelineWithLayout"

\* ------------------------------------------------------------------ C24

\* the platform calls a native init makes when every step succeeds, in order
NativeInitSteps ==
    <<"navigator.gpu.requestAdapter", "adapter.requestDevice", "canvas.getContext",
      "navigator.gpu.getPreferredCanvasFormat", "context.configure">>

\* the platform operations of the init that returned at place i, in order
InitOps(i) ==
    LET c == CHOOSE j \in Idx("init", calls[i].b) : j < i
        lo == calls[c].at
        n == calls[i].at + calls[i].n - lo
    IN  [k \in 1..n |-> plat[lo + k].op]

\* C24: a native init stops at the first step that fails: it makes the
\* steps in order and none after the failing one (no requestAdapter when the
\* capability is absent, no requestDevice when no adapter is returned, no
\* getPreferredCanvasFormat or configure when the canvas yields no context);
\* it returns a Context only after all five steps, configure included, and
\* then a fully populated one; a failed or unfinished init yields no Context.
C24_NativeInitFailsFast ==
    /\ (InitCalled("WebGPU") /\ Idx("init.return", "WebGPU") = {}) => ctx = NullCtx
    /\ \A i \in Idx("init.return", "WebGPU") :
          LET ops == InitOps(i)
              e == calls[i].err
          IN  /\ Len(ops) <= Len(NativeInitSteps)
              /\ ops = SubSeq(NativeInitSteps, 1, Len(ops))
              /\ ~hasGpu => e = Err("WebGPU not supported")
              /\ e = Err("WebGPU not supported") => Len(ops) = 0
              /\ e = Err("No WebGPU adapter found") => Len(ops) = 1
              /\ e = Err("Failed to get WebGPU context") => Len(ops) = 3
              /\ e = NoErr =>
                    /\ Len(ops) = 5
                    /\ calls[i].ctx.tag = "webgpu"
                    /\ calls[i].ctx.device # NullCtx.device
                    /\ calls[i].ctx.queue # NullCtx.queue
                    /\ calls[i].ctx.format \in Formats
                    /\ ctx = calls[i].ctx
              /\ e # NoErr => (calls[i].ctx = NullCtx /\ ctx = NullCtx)

\* a native init failed because the canvas yielded no WebGPU context, after
\* the adapter and the device were acquired
C24_Witness ==
    \E i \in Idx("init.return", "WebGPU") :
        /\ calls[i].err = Err("Failed to get WebGPU context")
        /\ ctx = NullCtx
        /\ Len(InitOps(i)) = 3

\* ------------------------------------------------------------------ C27

\* the native init that returned at place i failed before it reached the
\* canvas: its last platform call, if it made any, was the request of the
\* adapter or of the device
FailedBeforeCanvas(i) ==
    /\ calls[i].err # NoErr
    /\ \/ InitOps(i) = <<>>
       \/ InitOps(i)[Len(InitOps(i))] \in {"navigator.gpu.requestAdapter", "adapter.requestDevice"}

\* C27: the native init calls canvas.getContext('webgpu') only after its
\* requestAdapter and its requestDevice have both been made and succeeded;
\* so when the native init was skipped (capability absent) or failed on the
\* capability, the adapter or the device, no graphics context has been
\* requested on the canvas when the bridge init starts.
C27_CanvasClaimedAfterAcquisition ==
    /\ \A p \in PlatIdx("canvas.getContext") :
          /\ p >= 3
          /\ plat[p - 2].op = "navigator.gpu.requestAdapter"
          /\ plat[p - 1].op = "adapter.requestDevice"
    /\ \A i \in Idx("init.return", "WebGPU") :
          /\ PlatIdx("canvas.getContext") \cap InitPlat(i) # {} =>
                /\ Len(InitOps(i)) >= 3
                /\ SubSeq(InitOps(i), 1, 3) = SubSeq(NativeInitSteps, 1, 3)
          /\ FailedBeforeCanvas(i) =>
                \A j \in Idx("init", "WebGL") :
                    {p \in PlatIdx("canvas.getContext") : p <= calls[j].at} = {}
    /\ ~hasGpu =>
          \A j \in Idx("init", "WebGL") :
              {p \in PlatIdx("canvas.getContext") : p <= calls[j].at} = {}

\* the device request of the native init was rejected and the bridge init
\* has started
C27_Witness ==
    /\ \E i \in Idx("init.return", "WebGPU") :
          /\ FailedBeforeCanvas(i)
          /\ Len(InitOps(i)) = 2
    /\ InitCalled("WebGL")
    /\ PlatIdx("canvas.getContext") = {}

\* ------------------------------------------------------------------ C26

\* the tag of the Contexts the init of backend b returns
TagOf(b) == IF b = "WebGPU" THEN "webgpu" ELSE "webgl"

\* the places of the interface trace where an operation other than init was
\* given a Context
WithContext ==
    {i \in 1..Len(calls) : calls[i].op \notin {"init", "init.return"} /\ calls[i].ctx # NullCtx}

\* C26: every operation other than init that is invoked on a backend with a
\* Context gets a Context an earlier init of that same backend returned, so
\* the bridge never receives a WebGPUContext and the native backend never a
\* WebGLContext; after a failed native attempt ctx holds no native Context.
C26_ContextMatchesBackend ==
    /\ \A i \in WithContext :
          /\ calls[i].ctx.tag = TagOf(calls[i].b)
          /\ \E j \in Idx("init.return", calls[i].b) :
                /\ j < i
                /\ calls[j].err = NoErr
                /\ calls[j].ctx = calls[i].ctx
    /\ InitFailed("WebGPU") => ctx.tag # "webgpu"
    /\ ctx # NullCtx => ctx.tag = TagOf(backend)

\* after a failed native attempt the bridge was bound and given its Context
\* in a creation call and in a frame
C26_Witness ==
    /\ InitFailed("WebGPU")
    /\ \E i \in WithContext : calls[i].b = "WebGL" /\ calls[i].op \in CreateOps
    /\ \E i \in WithContext : calls[i].b = "WebGL" /\ calls[i].op = "endFrame"

\* ------------------------------------------------------------------ C25

\* the places of the interface trace where a resource creation threw
CreationsFailed == {i \in 1..Len(calls) : calls[i].op \in CreateOps /\ calls[i].err # NoErr}

\* main() as the page runs it: a rejection of the promise main() returned
\* always reaches the handler attached by main().catch(...)
SpecLive == Init /\ [][Next]_vars /\ WF_vars(TopLevelCatch)

\* the creation that threw at place i is the last interface call, no frame
\* operation was issued, and main() is rejected with what the creation threw
EndsSetup(i) ==
    /\ i = Len(calls)
    /\ \A j \in 1..Len(calls) : calls[j].op \notin FrameOps
    /\ Ready
    /\ mainResult = Rejected(calls[i].err)
    /\ pc \in {"rejected", "done"}

\* the top-level handler has run and logged, as an error, what the creation
\* at place i threw
LoggedUnhandled(i) ==
    /\ pc = "done"
    /\ Len(logs) > 0
    /\ logs[Len(logs)] =
          [level |-> "error", text |-> <<"Unhandled error: ", Message(calls[i].err)>>]

\* C25: when createShaderModule, a createRenderPipeline variant or
\* createBufferWithData throws during setup, it stays the last interface
\* call of the run (no beginFrame and no other frame operation is ever
\* issued afterwards) and main() is rejected with what was thrown; the
\* rejection then reaches the top-level handler, which logs it as an error,
\* 'Unhandled error: <message>', and the page goes on.
C25_CreationFailureEndsSetup ==
    /\ [](\A i \in CreationsFailed : EndsSetup(i) /\ (pc = "done" => LoggedUnhandled(i)))
    /\ (CreationsFailed # {}) ~> (\E i \in CreationsFailed : LoggedUnhandled(i))

\* the pipeline creation threw after the shader module was created, and the
\* top-level handler has run
C25_Witness ==
    /\ pc = "done"
    /\ \E i \in CreationsFailed :
          calls[i].op \in {"createRenderPipeline", "createRenderPipelineWithLayout"}
    /\ \E j \in IdxOp("createShaderModule") : calls[j].err = NoErr

\* ------------------------------------------------------------------ C23

\* a creation or frame call of the run threw
SomeCallThrew ==
    \E j \in 1..Len(calls) : calls[j].op \in CreateOps \cup FrameOps /\ calls[j].err # NoErr

\* C23 as claimed: in every run that reaches Ready, when the run is over
\* beginFrame and endFrame have each been called exactly once and the frame
\* counter is 1.
C23_AsClaimed ==
    (Ready /\ pc = "done") =>
        /\ Cardinality(IdxOp("beginFrame")) = 1
        /\ Cardinality(IdxOp("endFrame")) = 1
        /\ frameCount = 1

\* C23: the driver never renders a second frame: beginFrame and endFrame are
\* each called at most once, endFrame only after beginFrame, the frame
\* counter counts the endFrame calls that returned, and no further frame is
\* scheduled; a run that reaches Ready and in which no creation or frame
\* call throws ends with exactly one beginFrame, exactly one endFrame and a
\* frame counter of 1.
C23_SingleFrame ==
    /\ Cardinality(IdxOp("beginFrame")) <= 1
    /\ Cardinality(IdxOp("endFrame")) <= 1
    /\ IdxOp("endFrame") # {} => IdxOp("beginFrame") # {}
    /\ frameCount = Cardinality({i \in IdxOp("endFrame") : calls[i].err = NoErr})
    /\ PlatIdx("requestAnimationFrame") = {}
    /\ (Ready /\ pc = "done" /\ ~SomeCallThrew) =>
          /\ Cardinality(IdxOp("beginFrame")) = 1
          /\ Cardinality(IdxOp("endFrame")) = 1
          /\ frameCount = 1
          /\ mainResult = Resolved
    /\ (Ready /\ pc = "done" /\ SomeCallThrew) => frameCount = 0

\* main() returned after render() ran its one frame
C23_Witness ==
    /\ Ready /\ pc = "done" /\ mainResult = Resolved
    /\ frameCount = 1
    /\ Cardinality(IdxOp("endFrame")) = 1

\* ------------------------------------------------------------------ C22

\* an init had resolved with a Context when the interface trace had n events
ReadyAt(n) ==
    \E j \in 1..Len(calls) :
        j <= n /\ calls[j].op = "init.return" /\ calls[j].err = NoErr

\* C22: backend initialization is the only suspension point. Every other
\* task the event loop ran while main() was not yet over ran while an init
\* was pending (the last interface event was the call of an init); once an
\* init has resolved no other task runs until main() is over: none between
\* a frame's beginFrame and its endFrame, none between any two interface
\* operations on the bound Context.
C22_InitOnlySuspension ==
    \A k \in 1..Len(others) :
        LET t == others[k]
        IN  /\ t.pc # "done" =>
                  /\ t.at >= 1
                  /\ calls[t.at].op = "init"
                  /\ ~ReadyAt(t.at)
            /\ ReadyAt(t.at) =>
                  /\ t.pc = "done"
                  /\ t.at = Len(calls)
            /\ \A b \in IdxOp("beginFrame"), e \in IdxOp("endFrame") : ~(b <= t.at /\ t.at < e)
            /\ \A i \in 1..Len(calls), j \in 1..Len(calls) :
                  (calls[i].op \in CreateOps \cup FrameOps /\ calls[j].op \in CreateOps \cup FrameOps)
                      => ~(i <= t.at /\ t.at < j)

\* another task ran while the native init was waiting for its device, and
\* another one after main() had rendered its frame
C22_Witness ==
    /\ \E k \in 1..Len(others) : others[k].pc = "await_device"
    /\ \E k \in 1..Len(others) : others[k].pc = "done" /\ ReadyAt(others[k].at)
    /\ frameCount = 1

====
